---------------------------- MODULE Spec2Model ----------------------------
(***************************************************************************)
(* Model of the telemetry ingestion and alerting engine of                 *)
(* mqtt/examples/industrial-iot-monitor/industrial_monitor.py              *)
(* (class IndustrialIoTMonitor), and of the topic matcher and automation   *)
(* rule engine of mqtt/examples/smart-home-system/smart_home_controller.py *)
(* (class SmartHomeController).                                            *)
(*                                                                         *)
(* Conventions of the representation                                       *)
(*   - A Python str is a sequence of tokens; the token "_" is the          *)
(*     underscore character and no other token contains an underscore.     *)
(*     "line_a" is <<"line", "_", "a">>.  str.split('_') and '_'.join are  *)
(*     computed on that sequence.                                          *)
(*   - A topic of the monitor is the sequence of its '/'-separated        *)
(*     segments, each a str.  A topic or pattern of the controller is a    *)
(*     str in which "/" is a token of its own, and the controller splits   *)
(*     it.                                                                 *)
(*   - A decoded JSON value is a record [t, n, s]: a number n (t = "num"), *)
(*     a string that is an ISO-8601 time n (t = "iso"), or any other       *)
(*     string s (t = "str").                                               *)
(*   - datetime values are minutes on an integer clock; None is -1.        *)
(*   - self.machines is an insertion-ordered dict: a sequence of Machine   *)
(*     records, looked up by machine_id.                                   *)
(*   - floats are exact rationals.                                         *)
(***************************************************************************)
EXTENDS Integers, Sequences, FiniteSets, TLC

VARIABLES
    machines,          \* self.machines, in insertion order
    production_lines,  \* self.production_lines
    stats,             \* self.stats
    now,               \* the wall clock read by datetime.now()
    pending,           \* the sensor event the message thread is inside of
    published,         \* the client.publish calls of the latest handler run
    lastOp,            \* the latest step: its operation, input and raised alerts
    status_history,    \* rows written by save_status_change_to_db, in order
    accepted,          \* every SensorData appended to a window, in order
    raised,            \* every alert built by generate_alert, in order
    sweepAlerts,       \* the alerts raised by sweeps since the latest inbound message
    matcher,           \* a call of topic_matches_pattern: arguments and result
    devices,           \* SmartHomeController.devices, in insertion order
    automation_rules,  \* SmartHomeController.automation_rules
    homeOp,            \* the latest on_message run of the controller
    homeMsgs,          \* the number of messages the controller has taken
    running,           \* self.running
    hc,                \* the health-check thread: where it is and its locals
    trendCall          \* a call of calculate_trend: argument and result

vars == <<machines, production_lines, stats, now, pending, published, lastOp,
          status_history, accepted, raised, sweepAlerts,
          matcher, devices, automation_rules, homeOp, homeMsgs,
          running, hc, trendCall>>

\* the state of the SmartHomeController and of the matcher call
controllerVars == <<matcher, devices, automation_rules, homeOp, homeMsgs>>

\* the health-check thread and the flag that stops it
threadVars == <<running, hc>>

\* the state of the IndustrialIoTMonitor
monitorVars == <<machines, production_lines, stats, now, pending, published,
                 lastOp, status_history, accepted, raised, sweepAlerts>>

---------------------------------------------------------------------------
(* Bounds of the model *)

MaxMsgs == 2

MaxTime == 6

MaxSoak == 1435

MaxLifeMsgs == 3

MaxThreadMsgs == 2

MaxShapeMsgs == 3

MaxShapeTime == 1

MaxPairMsgs == 3

MaxFeed == 115

MaxTrendLen == 6

MaxAnyLen == 3

---------------------------------------------------------------------------
(* Python values *)

None == -1

NoneStr == <<"<None>">>

Str(w) == <<w>>

JNum(n) == [t |-> "num", n |-> n, s |-> << >>]

JStr(s) == [t |-> "str", n |-> 0, s |-> s]

JIso(n) == [t |-> "iso", n |-> n, s |-> << >>]

NoFields == [k \in {} |-> JNum(0)]

\* dict.get(key, default)
Get(payload, key, default) ==
    IF key \in DOMAIN payload THEN payload[key] ELSE default

\* float(x): a number converts, a non-numeric string raises ValueError
FloatOk(j) == j.t = "num"

\* datetime.fromisoformat(x): only an ISO string converts
IsoOk(j) == j.t = "iso"

RECURSIVE SplitAcc(_, _, _)
SplitAcc(s, sep, cur) ==
    IF s = << >> THEN <<cur>>
    ELSE IF Head(s) = sep THEN <<cur>> \o SplitAcc(Tail(s), sep, << >>)
    ELSE SplitAcc(Tail(s), sep, Append(cur, Head(s)))

\* s.split(sep)
Split(s, sep) == SplitAcc(s, sep, << >>)

RECURSIVE Join(_, _)
\* sep.join(parts)
Join(sep, parts) ==
    IF parts = << >> THEN << >>
    ELSE IF Len(parts) = 1 THEN parts[1]
    ELSE parts[1] \o <<sep>> \o Join(sep, Tail(parts))

\* lst[-n:]
LastN(lst, n) ==
    IF Len(lst) <= n THEN lst ELSE SubSeq(lst, Len(lst) - n + 1, Len(lst))

\* f"{line_id}_{machine_id}"
FullMachineId(line_id, machine_id) == line_id \o <<"_">> \o machine_id

---------------------------------------------------------------------------
(* Configuration: enums, threshold table, production lines *)

AlertLevel == {"info", "warning", "critical", "emergency"}

MachineStatus == {"running", "idle", "maintenance", "error", "offline"}

\* self.alert_thresholds
alert_thresholds ==
    (Str("temperature") :> [warning |-> 80, critical |-> 95])
    @@ (Str("vibration") :> [warning |-> 2, critical |-> 5])
    @@ (Str("pressure") :> [warning |-> 150, critical |-> 200])
    @@ (Str("current") :> [warning |-> 80, critical |-> 100])

\* the keys of self.production_lines
ConfiguredLines ==
    {<<"line", "_", "a">>, <<"line", "_", "b">>, <<"line", "_", "c">>}

\* timedelta(minutes=5)
OfflineTimeout == 5

\* "最新1000件のみ保持"
SensorWindowCap == 1000

\* "最新100件のみ保持"
AlertListCap == 100

\* machine.sensor_data[sensor_type][-100:]
MetricsWindow == 100

\* len(recent_data) >= 10
MetricsMinReadings == 10

---------------------------------------------------------------------------
(* The registry: an insertion-ordered dict of Machine *)

MachineIds(ms) == {ms[i].machine_id : i \in 1..Len(ms)}

\* full_machine_id in self.machines
InRegistry(ms, id) == id \in MachineIds(ms)

\* position of self.machines[id]
IndexOf(ms, id) == CHOOSE i \in 1..Len(ms) : ms[i].machine_id = id

\* self.machines[id]
MachineOf(ms, id) == ms[IndexOf(ms, id)]

\* Machine(machine_id=..., machine_type=..., line_id=...)
NewMachine(id, machine_type, line_id) ==
    [machine_id |-> id,
     machine_type |-> machine_type,
     line_id |-> line_id,
     status |-> "offline",
     last_seen |-> None,
     sensor_data |-> [k \in {} |-> << >>],
     alerts |-> << >>,
     performance_metrics |-> [k \in {} |-> [num |-> 0, den |-> 1, root |-> 1]]]

---------------------------------------------------------------------------
(* Outbound publishes.  A handler run is threaded through a record         *)
(*   w = [machines, production_lines, stats, published, status_history,    *)
(*        alerts, accepted, oks]                                           *)
(* where alerts are the alerts raised so far in this run and oks[k] is the *)
(* transport's answer to the k-th publish call of the run.                 *)

OkAt(oks, k) == IF k \in DOMAIN oks THEN oks[k] ELSE TRUE

\* self.client.publish(topic, json.dumps(payload), qos=qos); the result is ignored
Publish(w, topic, payload, qos) ==
    [w EXCEPT !.published =
        Append(@, [topic |-> topic, payload |-> payload, qos |-> qos,
                   ok |-> OkAt(w.oks, Len(@) + 1)])]

\* handle_critical_alert
HandleCriticalAlert(w, machine_id, message, t) ==
    LET emergency_command ==
            [command |-> "emergency_stop", reason |-> message,
             timestamp |-> t, auto_generated |-> TRUE]
        line_parts == Split(machine_id, "_")
    IN  IF Len(line_parts) >= 2
        THEN LET line_id == line_parts[1]
                 machine_name == Join("_", Tail(line_parts))
                 topic == <<Str("factory"), line_id, machine_name, Str("emergency")>>
             IN  Publish(w, topic, emergency_command, 2)
        ELSE w

\* publish_alert
PublishAlert(w, alert) ==
    Publish(w, <<Str("factory"), Str("alerts"), Str(alert.level)>>,
            [machine_id |-> alert.machine_id, level |-> alert.level,
             message |-> alert.message, timestamp |-> alert.timestamp,
             sensor_type |-> alert.sensor_type, value |-> alert.value,
             threshold |-> alert.threshold],
            1)

\* AppendAlert with the trim keeping the oldest entries (alerts[:100])
AppendAlert_KeepsOldest(ms, machine_id, alert) ==
    IF InRegistry(ms, machine_id)
    THEN [ms EXCEPT ![IndexOf(ms, machine_id)].alerts =
             LET grown == Append(@, alert)
             IN  IF Len(grown) > AlertListCap
                 THEN SubSeq(grown, 1, AlertListCap) ELSE grown]
    ELSE ms

\* the append and trim of generate_alert (lines 371-377)
AppendAlert(ms, machine_id, alert) ==
    IF InRegistry(ms, machine_id)
    THEN [ms EXCEPT ![IndexOf(ms, machine_id)].alerts =
             LastN(Append(@, alert), AlertListCap)]
    ELSE ms

\* GenerateAlert with a failed emergency publish ending the call (as if the
\* publish raised), so that publish_alert is not reached
GenerateAlert_AbortsOnFailedStop(w, machine_id, level, message, sensor_type, value, threshold, t) ==
    LET alert == [machine_id |-> machine_id, level |-> level,
                  message |-> message, sensor_type |-> sensor_type,
                  value |-> value, threshold |-> threshold,
                  timestamp |-> t, acknowledged |-> FALSE]
        w1 == [w EXCEPT !.machines = AppendAlert(@, machine_id, alert),
                        !.stats.alerts_generated = @ + 1,
                        !.alerts = Append(@, alert)]
        w2 == IF level = "critical"
              THEN HandleCriticalAlert(w1, machine_id, message, t)
              ELSE w1
    IN  IF Len(w2.published) > Len(w1.published)
           /\ ~w2.published[Len(w2.published)].ok
        THEN w2
        ELSE PublishAlert(w2, alert)

\* generate_alert
GenerateAlert(w, machine_id, level, message, sensor_type, value, threshold, t) ==
    LET alert == [machine_id |-> machine_id, level |-> level,
                  message |-> message, sensor_type |-> sensor_type,
                  value |-> value, threshold |-> threshold,
                  timestamp |-> t, acknowledged |-> FALSE]
        w1 == [w EXCEPT !.machines = AppendAlert(@, machine_id, alert),
                        !.stats.alerts_generated = @ + 1,
                        !.alerts = Append(@, alert)]
        w2 == IF level = "critical"
              THEN HandleCriticalAlert(w1, machine_id, message, t)
              ELSE w1
    IN  PublishAlert(w2, alert)

\* CheckSensorAlerts with the critical level compared by > instead of >=
CheckSensorAlerts_StrictCritical(w, machine_id, sensor_data, t) ==
    LET sensor_type == sensor_data.sensor_type
        value == sensor_data.value
    IN  IF sensor_type \in DOMAIN alert_thresholds
        THEN LET thresholds == alert_thresholds[sensor_type]
             IN  IF value > thresholds.critical
                 THEN GenerateAlert(w, machine_id, "critical",
                          [fmt |-> "critical", s |-> sensor_type, n |-> value],
                          sensor_type, value, thresholds.critical, t)
                 ELSE IF value >= thresholds.warning
                 THEN GenerateAlert(w, machine_id, "warning",
                          [fmt |-> "high", s |-> sensor_type, n |-> value],
                          sensor_type, value, thresholds.warning, t)
                 ELSE w
        ELSE w

\* CheckSensorAlerts with a kind that has no entry falling back to the
\* temperature thresholds
CheckSensorAlerts_DefaultThresholds(w, machine_id, sensor_data, t) ==
    LET sensor_type == sensor_data.sensor_type
        value == sensor_data.value
        thresholds == IF sensor_type \in DOMAIN alert_thresholds
                      THEN alert_thresholds[sensor_type]
                      ELSE alert_thresholds[Str("temperature")]
    IN  IF value >= thresholds.critical
        THEN GenerateAlert(w, machine_id, "critical",
                 [fmt |-> "critical", s |-> sensor_type, n |-> value],
                 sensor_type, value, thresholds.critical, t)
        ELSE IF value >= thresholds.warning
        THEN GenerateAlert(w, machine_id, "warning",
                 [fmt |-> "high", s |-> sensor_type, n |-> value],
                 sensor_type, value, thresholds.warning, t)
        ELSE w

\* check_sensor_alerts
CheckSensorAlerts(w, machine_id, sensor_data, t) ==
    LET sensor_type == sensor_data.sensor_type
        value == sensor_data.value
    IN  IF sensor_type \in DOMAIN alert_thresholds
        THEN LET thresholds == alert_thresholds[sensor_type]
             IN  IF value >= thresholds.critical
                 THEN GenerateAlert(w, machine_id, "critical",
                          [fmt |-> "critical", s |-> sensor_type, n |-> value],
                          sensor_type, value, thresholds.critical, t)
                 ELSE IF value >= thresholds.warning
                 THEN GenerateAlert(w, machine_id, "warning",
                          [fmt |-> "high", s |-> sensor_type, n |-> value],
                          sensor_type, value, thresholds.warning, t)
                 ELSE w
        ELSE w

---------------------------------------------------------------------------
(* Metrics Calculator.  A float is the exact number (num/den)^(1/root).    *)

Abs(n) == IF n < 0 THEN -n ELSE n

RECURSIVE GCD(_, _)
GCD(a, b) == IF b = 0 THEN a ELSE GCD(b, a % b)

Rat(n, d) ==
    LET g == GCD(Abs(n), Abs(d))
        sg == IF d < 0 THEN -1 ELSE 1
    IN  [num |-> sg * (n \div g), den |-> sg * (d \div g), root |-> 1]

Sqrt(r) == [r EXCEPT !.root = 2]

RECURSIVE SumRange(_, _, _)
\* xs[lo] + ... + xs[hi], by halves
SumRange(xs, lo, hi) ==
    IF lo > hi THEN 0
    ELSE IF lo = hi THEN xs[lo]
    ELSE LET mid == (lo + hi) \div 2
         IN  SumRange(xs, lo, mid) + SumRange(xs, mid + 1, hi)

\* sum(xs)
SumSeq(xs) == SumRange(xs, 1, Len(xs))

RECURSIVE MinRange(_, _, _)
\* the least of xs[lo..hi], lo <= hi, by halves
MinRange(xs, lo, hi) ==
    IF lo = hi THEN xs[lo]
    ELSE LET mid == (lo + hi) \div 2
             a == MinRange(xs, lo, mid)
             b == MinRange(xs, mid + 1, hi)
         IN  IF a < b THEN a ELSE b

\* min(xs), xs not empty
MinSeq(xs) == MinRange(xs, 1, Len(xs))

RECURSIVE MaxRange(_, _, _)
\* the greatest of xs[lo..hi], lo <= hi, by halves
MaxRange(xs, lo, hi) ==
    IF lo = hi THEN xs[lo]
    ELSE LET mid == (lo + hi) \div 2
             a == MaxRange(xs, lo, mid)
             b == MaxRange(xs, mid + 1, hi)
         IN  IF a > b THEN a ELSE b

\* max(xs), xs not empty
MaxSeq(xs) == MaxRange(xs, 1, Len(xs))

\* statistics.mean(values)
Mean(values) == Rat(SumSeq(values), Len(values))

\* statistics.stdev(values): the root of the sample variance (denominator n-1)
Stdev(values) ==
    LET n == Len(values)
        sx == SumSeq(values)
        sxx == SumSeq([i \in 1..n |-> values[i] * values[i]])
    IN  Sqrt(Rat(n * sxx - sx * sx, n * (n - 1)))

\* CalculateTrend with the denominator summed over x instead of x - x_mean
CalculateTrend_UncentredDenominator(values) ==
    IF Len(values) < 2 THEN Rat(0, 1)
    ELSE LET n == Len(values)
             sx == SumSeq([i \in 1..n |-> i - 1])
             sy == SumSeq(values)
             numerator ==
                 SumSeq([i \in 1..n |-> (n * (i - 1) - sx) * (n * values[i] - sy)])
             denominator ==
                 SumSeq([i \in 1..n |-> (n * (i - 1)) * (n * (i - 1))])
         IN  IF denominator # 0 THEN Rat(numerator, denominator) ELSE Rat(0, 1)

\* calculate_trend; numerator and denominator are both scaled by n*n
CalculateTrend(values) ==
    IF Len(values) < 2 THEN Rat(0, 1)
    ELSE LET n == Len(values)
             sx == SumSeq([i \in 1..n |-> i - 1])
             sy == SumSeq(values)
             numerator ==
                 SumSeq([i \in 1..n |-> (n * (i - 1) - sx) * (n * values[i] - sy)])
             denominator ==
                 SumSeq([i \in 1..n |-> (n * (i - 1) - sx) * (n * (i - 1) - sx)])
         IN  IF denominator # 0 THEN Rat(numerator, denominator) ELSE Rat(0, 1)

\* f"{sensor_type}_{stat}"
MetricKey(sensor_type, stat) == sensor_type \o <<"_", stat>>

\* CalculatePerformanceMetrics asking for more than 10 readings
CalculatePerformanceMetrics_MoreThanTen(machine, sensor_type) ==
    IF sensor_type \notin DOMAIN machine.sensor_data THEN machine
    ELSE LET recent_data == LastN(machine.sensor_data[sensor_type], MetricsWindow)
         IN  IF Len(recent_data) > MetricsMinReadings
             THEN LET values == [i \in 1..Len(recent_data) |-> recent_data[i].value]
                      update ==
                          (MetricKey(sensor_type, "mean") :> Mean(values))
                          @@ (MetricKey(sensor_type, "std") :>
                                 (IF Len(values) > 1 THEN Stdev(values) ELSE Rat(0, 1)))
                          @@ (MetricKey(sensor_type, "min") :> Rat(MinSeq(values), 1))
                          @@ (MetricKey(sensor_type, "max") :> Rat(MaxSeq(values), 1))
                          @@ (MetricKey(sensor_type, "trend") :> CalculateTrend(values))
                  IN  [machine EXCEPT !.performance_metrics = update @@ @]
             ELSE machine

\* calculate_performance_metrics, on one Machine
CalculatePerformanceMetrics(machine, sensor_type) ==
    IF sensor_type \notin DOMAIN machine.sensor_data THEN machine
    ELSE LET recent_data == LastN(machine.sensor_data[sensor_type], MetricsWindow)
         IN  IF Len(recent_data) >= MetricsMinReadings
             THEN LET values == [i \in 1..Len(recent_data) |-> recent_data[i].value]
                      update ==
                          (MetricKey(sensor_type, "mean") :> Mean(values))
                          @@ (MetricKey(sensor_type, "std") :>
                                 (IF Len(values) > 1 THEN Stdev(values) ELSE Rat(0, 1)))
                          @@ (MetricKey(sensor_type, "min") :> Rat(MinSeq(values), 1))
                          @@ (MetricKey(sensor_type, "max") :> Rat(MaxSeq(values), 1))
                          @@ (MetricKey(sensor_type, "trend") :> CalculateTrend(values))
                  IN  [machine EXCEPT !.performance_metrics = update @@ @]
             ELSE machine

---------------------------------------------------------------------------
(* Sensor events *)

\* lines 213-224 of handle_sensor_data: create the Machine on first sight
RegisterMachine(w, line_id, machine_id, payload) ==
    LET full_machine_id == FullMachineId(line_id, machine_id)
    IN  IF ~InRegistry(w.machines, full_machine_id)
        THEN [w EXCEPT
                !.machines = Append(@, NewMachine(full_machine_id,
                                 Get(payload, "machine_type", JStr("unknown")),
                                 line_id)),
                !.production_lines =
                    IF line_id \in DOMAIN @
                    THEN IF \E i \in 1..Len(@[line_id]) : @[line_id][i] = full_machine_id
                         THEN @
                         ELSE [@ EXCEPT ![line_id] = Append(@, full_machine_id)]
                    ELSE @]
        ELSE w

\* AppendReading with the trim keeping the oldest entries ([:1000])
AppendReading_KeepsOldest(machine, sensor_type, sensor_data) ==
    LET with_key ==
            IF sensor_type \notin DOMAIN machine.sensor_data
            THEN (sensor_type :> << >>) @@ machine.sensor_data
            ELSE machine.sensor_data
    IN  [machine EXCEPT !.sensor_data =
            [with_key EXCEPT ![sensor_type] =
                LET grown == Append(@, sensor_data)
                IN  IF Len(grown) > SensorWindowCap
                    THEN SubSeq(grown, 1, SensorWindowCap) ELSE grown]]

\* the append and trim of lines 241-248, on one Machine
AppendReading(machine, sensor_type, sensor_data) ==
    LET with_key ==
            IF sensor_type \notin DOMAIN machine.sensor_data
            THEN (sensor_type :> << >>) @@ machine.sensor_data
            ELSE machine.sensor_data
    IN  [machine EXCEPT !.sensor_data =
            [with_key EXCEPT ![sensor_type] =
                LastN(Append(@, sensor_data), SensorWindowCap)]]

\* RecordSensorData as a transaction: when the SensorData cannot be built
\* the assignments of lines 227-228 are undone
RecordSensorData_RollsBack(w, line_id, machine_id, sensor_type, payload, t) ==
    LET full_machine_id == FullMachineId(line_id, machine_id)
        i == IndexOf(w.machines, full_machine_id)
        w1 == [w EXCEPT !.machines[i].last_seen = t,
                        !.machines[i].status = "running"]
        value == Get(payload, "value", JNum(0))
        unit == Get(payload, "unit", JStr(<< >>))
        timestamp == Get(payload, "timestamp", JIso(t))
        quality == Get(payload, "quality", JNum(1))
    IN  IF ~(FloatOk(value) /\ IsoOk(timestamp) /\ FloatOk(quality))
        THEN w
        ELSE LET sensor_data ==
                     [machine_id |-> full_machine_id, sensor_type |-> sensor_type,
                      value |-> value.n, unit |-> unit,
                      timestamp |-> timestamp.n, quality |-> quality.n]
                 w2 == [w1 EXCEPT
                          !.machines[i] = AppendReading(@, sensor_type, sensor_data),
                          !.accepted = Append(@, sensor_data)]
                 w3 == CheckSensorAlerts(w2, full_machine_id, sensor_data, t)
             IN  [w3 EXCEPT !.machines[i] =
                                CalculatePerformanceMetrics(@, sensor_type)]

\* RecordSensorData setting RUNNING only when the Machine is OFFLINE
RecordSensorData_RunningOnlyFromOffline(w, line_id, machine_id, sensor_type, payload, t) ==
    LET full_machine_id == FullMachineId(line_id, machine_id)
        i == IndexOf(w.machines, full_machine_id)
        w1 == [w EXCEPT !.machines[i].last_seen = t,
                        !.machines[i].status =
                            IF @ = "offline" THEN "running" ELSE @]
        value == Get(payload, "value", JNum(0))
        unit == Get(payload, "unit", JStr(<< >>))
        timestamp == Get(payload, "timestamp", JIso(t))
        quality == Get(payload, "quality", JNum(1))
    IN  IF ~(FloatOk(value) /\ IsoOk(timestamp) /\ FloatOk(quality))
        THEN w1
        ELSE LET sensor_data ==
                     [machine_id |-> full_machine_id, sensor_type |-> sensor_type,
                      value |-> value.n, unit |-> unit,
                      timestamp |-> timestamp.n, quality |-> quality.n]
                 w2 == [w1 EXCEPT
                          !.machines[i] = AppendReading(@, sensor_type, sensor_data),
                          !.accepted = Append(@, sensor_data)]
                 w3 == CheckSensorAlerts(w2, full_machine_id, sensor_data, t)
             IN  [w3 EXCEPT !.machines[i] =
                                CalculatePerformanceMetrics(@, sensor_type)]

\* lines 226-257 of handle_sensor_data; an exception raised while the
\* SensorData is built is caught at line 259 and ends the handler
RecordSensorData(w, line_id, machine_id, sensor_type, payload, t) ==
    LET full_machine_id == FullMachineId(line_id, machine_id)
        i == IndexOf(w.machines, full_machine_id)
        w1 == [w EXCEPT !.machines[i].last_seen = t,
                        !.machines[i].status = "running"]
        value == Get(payload, "value", JNum(0))
        unit == Get(payload, "unit", JStr(<< >>))
        timestamp == Get(payload, "timestamp", JIso(t))
        quality == Get(payload, "quality", JNum(1))
    IN  IF ~(FloatOk(value) /\ IsoOk(timestamp) /\ FloatOk(quality))
        THEN w1
        ELSE LET sensor_data ==
                     [machine_id |-> full_machine_id, sensor_type |-> sensor_type,
                      value |-> value.n, unit |-> unit,
                      timestamp |-> timestamp.n, quality |-> quality.n]
                 w2 == [w1 EXCEPT
                          !.machines[i] = AppendReading(@, sensor_type, sensor_data),
                          !.accepted = Append(@, sensor_data)]
                 w3 == CheckSensorAlerts(w2, full_machine_id, sensor_data, t)
             IN  [w3 EXCEPT !.machines[i] =
                                CalculatePerformanceMetrics(@, sensor_type)]

---------------------------------------------------------------------------
(* Status, command and maintenance events *)

\* MachineStatus(x): only the five enum values convert
StatusOk(j) == j.t = "str" /\ Len(j.s) = 1 /\ j.s[1] \in MachineStatus

\* HandleStatusUpdate without the comparison of the old and the new status:
\* every update is recorded, and every update reporting ERROR raises an alert
HandleStatusUpdate_EveryUpdateIsAChange(w, line_id, machine_id, payload, t) ==
    LET full_machine_id == FullMachineId(line_id, machine_id)
    IN  IF ~InRegistry(w.machines, full_machine_id) THEN w
        ELSE LET i == IndexOf(w.machines, full_machine_id)
                 given == Get(payload, "status", JStr(Str("offline")))
             IN  IF ~StatusOk(given) THEN w
                 ELSE LET new_status == given.s[1]
                          w1 == [w EXCEPT !.machines[i].status = new_status,
                                          !.machines[i].last_seen = t]
                          w2 == [w1 EXCEPT !.status_history =
                                    Append(@, [machine_id |-> full_machine_id,
                                               status |-> new_status])]
                      IN  IF new_status = "error"
                          THEN GenerateAlert(w2, full_machine_id, "critical",
                                   [fmt |-> "Machine entered ERROR state",
                                    s |-> Get(payload, "error_message",
                                              JStr(Str("Unknown error"))).s,
                                    n |-> None],
                                   NoneStr, None, None, t)
                          ELSE w2

\* HandleStatusUpdate with last_seen written before the status value is
\* converted to the enum
HandleStatusUpdate_SeenBeforeConversion(w, line_id, machine_id, payload, t) ==
    LET full_machine_id == FullMachineId(line_id, machine_id)
    IN  IF ~InRegistry(w.machines, full_machine_id) THEN w
        ELSE LET i == IndexOf(w.machines, full_machine_id)
                 old_status == w.machines[i].status
                 given == Get(payload, "status", JStr(Str("offline")))
                 w0 == [w EXCEPT !.machines[i].last_seen = t]
             IN  IF ~StatusOk(given) THEN w0
                 ELSE LET new_status == given.s[1]
                          w1 == [w0 EXCEPT !.machines[i].status = new_status]
                      IN  IF old_status = new_status THEN w1
                          ELSE LET w2 == [w1 EXCEPT !.status_history =
                                            Append(@, [machine_id |-> full_machine_id,
                                                       status |-> new_status])]
                               IN  IF new_status = "error"
                                   THEN GenerateAlert(w2, full_machine_id, "critical",
                                            [fmt |-> "Machine entered ERROR state",
                                             s |-> Get(payload, "error_message",
                                                       JStr(Str("Unknown error"))).s,
                                             n |-> None],
                                            NoneStr, None, None, t)
                                   ELSE w2

\* handle_status_update
HandleStatusUpdate(w, line_id, machine_id, payload, t) ==
    LET full_machine_id == FullMachineId(line_id, machine_id)
    IN  IF ~InRegistry(w.machines, full_machine_id) THEN w
        ELSE LET i == IndexOf(w.machines, full_machine_id)
                 old_status == w.machines[i].status
                 given == Get(payload, "status", JStr(Str("offline")))
             IN  IF ~StatusOk(given) THEN w
                 ELSE LET new_status == given.s[1]
                          w1 == [w EXCEPT !.machines[i].status = new_status,
                                          !.machines[i].last_seen = t]
                      IN  IF old_status = new_status THEN w1
                          ELSE LET w2 == [w1 EXCEPT !.status_history =
                                            Append(@, [machine_id |-> full_machine_id,
                                                       status |-> new_status])]
                               IN  IF new_status = "error"
                                   THEN GenerateAlert(w2, full_machine_id, "critical",
                                            [fmt |-> "Machine entered ERROR state",
                                             s |-> Get(payload, "error_message",
                                                       JStr(Str("Unknown error"))).s,
                                             n |-> None],
                                            NoneStr, None, None, t)
                                   ELSE w2

\* send_machine_command
SendMachineCommand(w, machine_id, command, t) ==
    LET line_parts == Split(machine_id, "_")
    IN  IF Len(line_parts) >= 2
        THEN LET line_id == line_parts[1]
                 machine_name == Join("_", Tail(line_parts))
                 topic == <<Str("factory"), line_id, machine_name,
                            Str("commands"), Str("response")>>
             IN  Publish(w, topic,
                         [command |-> command, status |-> "executed", timestamp |-> t],
                         1)
        ELSE w

\* handle_command.  schedule_maintenance and reset_machine_alerts are not
\* defined by the class: calling them raises AttributeError, which on_message
\* catches (line 206)
HandleCommand(w, line_id, machine_id, payload, t) ==
    LET full_machine_id == FullMachineId(line_id, machine_id)
        command == Get(payload, "command", JStr(NoneStr))
    IN  IF command = JStr(Str("start"))
        THEN SendMachineCommand(w, full_machine_id, "start_production", t)
        ELSE IF command = JStr(Str("stop"))
        THEN SendMachineCommand(w, full_machine_id, "stop_production", t)
        ELSE w

\* HandleMaintenanceData raising its alert at level CRITICAL
HandleMaintenanceData_RaisesCritical(w, line_id, machine_id, payload, t) ==
    LET full_machine_id == FullMachineId(line_id, machine_id)
        maintenance_type == Get(payload, "type", JStr(NoneStr))
    IN  IF InRegistry(w.machines, full_machine_id)
        THEN LET i == IndexOf(w.machines, full_machine_id)
                 w1 == [w EXCEPT !.machines[i].status = "maintenance"]
             IN  GenerateAlert(w1, full_machine_id, "critical",
                     [fmt |-> "Maintenance started", s |-> maintenance_type.s,
                      n |-> None],
                     NoneStr, None, None, t)
        ELSE w

\* handle_maintenance_data
HandleMaintenanceData(w, line_id, machine_id, payload, t) ==
    LET full_machine_id == FullMachineId(line_id, machine_id)
        maintenance_type == Get(payload, "type", JStr(NoneStr))
    IN  IF InRegistry(w.machines, full_machine_id)
        THEN LET i == IndexOf(w.machines, full_machine_id)
                 w1 == [w EXCEPT !.machines[i].status = "maintenance"]
             IN  GenerateAlert(w1, full_machine_id, "info",
                     [fmt |-> "Maintenance started", s |-> maintenance_type.s,
                      n |-> None],
                     NoneStr, None, None, t)
        ELSE w

---------------------------------------------------------------------------
(* Liveness Monitor *)

\* HealthCheckMachine with the timeout compared by >= instead of >
HealthCheckMachine_AtTimeout(w, i, current_time) ==
    LET machine == w.machines[i]
    IN  IF machine.last_seen # None
           /\ current_time - machine.last_seen >= OfflineTimeout
           /\ machine.status # "offline"
        THEN GenerateAlert(
                 [w EXCEPT !.machines[i].status = "offline"],
                 machine.machine_id, "warning",
                 [fmt |-> "Machine went offline (last seen)",
                  s |-> NoneStr, n |-> machine.last_seen],
                 NoneStr, None, None, current_time)
        ELSE w

\* HealthCheckMachine without the test that the status is not yet OFFLINE
HealthCheckMachine_NoStatusCheck(w, i, current_time) ==
    LET machine == w.machines[i]
    IN  IF machine.last_seen # None
           /\ current_time - machine.last_seen > OfflineTimeout
        THEN GenerateAlert(
                 [w EXCEPT !.machines[i].status = "offline"],
                 machine.machine_id, "warning",
                 [fmt |-> "Machine went offline (last seen)",
                  s |-> NoneStr, n |-> machine.last_seen],
                 NoneStr, None, None, current_time)
        ELSE w

\* HealthCheckMachine with neither the last_seen test nor the status test
\* (a missing last_seen counting as the epoch)
HealthCheckMachine_NoGuards(w, i, current_time) ==
    LET machine == w.machines[i]
    IN  IF current_time - machine.last_seen > OfflineTimeout
        THEN GenerateAlert(
                 [w EXCEPT !.machines[i].status = "offline"],
                 machine.machine_id, "warning",
                 [fmt |-> "Machine went offline (last seen)",
                  s |-> NoneStr, n |-> machine.last_seen],
                 NoneStr, None, None, current_time)
        ELSE w

\* HealthCheckMachine that also puts an OFFLINE machine seen within the
\* timeout back to RUNNING
HealthCheckMachine_Recovers(w, i, current_time) ==
    LET machine == w.machines[i]
    IN  IF machine.last_seen # None
        THEN IF current_time - machine.last_seen > OfflineTimeout
             THEN IF machine.status # "offline"
                  THEN GenerateAlert(
                           [w EXCEPT !.machines[i].status = "offline"],
                           machine.machine_id, "warning",
                           [fmt |-> "Machine went offline (last seen)",
                            s |-> NoneStr, n |-> machine.last_seen],
                           NoneStr, None, None, current_time)
                  ELSE w
             ELSE IF machine.status = "offline"
                  THEN [w EXCEPT !.machines[i].status = "running"]
                  ELSE w
        ELSE w

\* the body of the loop of perform_health_check, for the i-th Machine
HealthCheckMachine(w, i, current_time) ==
    LET machine == w.machines[i]
    IN  IF machine.last_seen # None
        THEN IF current_time - machine.last_seen > OfflineTimeout
             THEN IF machine.status # "offline"
                  THEN GenerateAlert(
                           [w EXCEPT !.machines[i].status = "offline"],
                           machine.machine_id, "warning",
                           [fmt |-> "Machine went offline (last seen)",
                            s |-> NoneStr, n |-> machine.last_seen],
                           NoneStr, None, None, current_time)
                  ELSE w
             ELSE w
        ELSE w

RECURSIVE HealthCheckFrom(_, _, _)
\* for machine in self.machines.values(), from the i-th on
HealthCheckFrom(w, i, current_time) ==
    IF i > Len(w.machines) THEN w
    ELSE HealthCheckFrom(HealthCheckMachine(w, i, current_time), i + 1, current_time)

---------------------------------------------------------------------------
(* Dispatcher *)

\* an inbound payload: bytes that json.loads decodes to an object, or not
Decoded(fields) == [decodable |-> TRUE, fields |-> fields]

Undecodable == [decodable |-> FALSE, fields |-> NoFields]

NoPending == [active |-> FALSE, topic |-> << >>, raw |-> Undecodable]

\* the handler run's working record, from the current state
World(oks) ==
    [machines |-> machines, production_lines |-> production_lines,
     stats |-> stats, published |-> << >>, status_history |-> status_history,
     alerts |-> << >>, accepted |-> accepted, oks |-> oks]

\* on_message takes the sensor branch and the topic names a sensor kind
IsSensorTopic(topic) ==
    Len(topic) >= 5 /\ topic[4] = Str("sensors")

\* the routing of on_message after the payload is decoded (lines 186-202);
\* a sensor topic without a kind segment raises IndexError, and the
\* factory/alerts/ and factory/production/ branches call methods the class
\* does not define: both are caught at line 206
Route(w, topic, payload, t) ==
    IF Len(topic) >= 4
    THEN LET line_id == topic[2]
             machine_id == topic[3]
             message_type == topic[4]
         IN  IF message_type = Str("sensors")
             THEN IF Len(topic) >= 5
                  THEN RecordSensorData(
                           RegisterMachine(w, line_id, machine_id, payload),
                           line_id, machine_id, topic[5], payload, t)
                  ELSE w
             ELSE IF message_type = Str("status")
             THEN HandleStatusUpdate(w, line_id, machine_id, payload, t)
             ELSE IF message_type = Str("commands")
             THEN HandleCommand(w, line_id, machine_id, payload, t)
             ELSE IF message_type = Str("maintenance")
             THEN HandleMaintenanceData(w, line_id, machine_id, payload, t)
             ELSE w
    ELSE w

\* the state of the monitor left by a run that ended with the record w
Apply(w, op, topic, raw) ==
    /\ machines' = w.machines
    /\ production_lines' = w.production_lines
    /\ stats' = w.stats
    /\ published' = w.published
    /\ status_history' = w.status_history
    /\ accepted' = w.accepted
    /\ raised' = raised \o w.alerts
    /\ sweepAlerts' = IF op = "sweep" THEN sweepAlerts \o w.alerts ELSE << >>
    /\ lastOp' = [op |-> op, topic |-> topic, raw |-> raw, alerts |-> w.alerts,
                  readings |-> SubSeq(w.accepted, Len(accepted) + 1, Len(w.accepted))]

\* the state left by a finished handler run
Commit(w, op, topic, raw) ==
    /\ Apply(w, op, topic, raw)
    /\ UNCHANGED <<controllerVars, threadVars, trendCall>>

\* the sensor event creates its Machine: the message thread can be
\* preempted by the health-check thread between line 224 and line 226
CreatesMachine(topic, raw) ==
    /\ raw.decodable
    /\ IsSensorTopic(topic)
    /\ ~InRegistry(machines, FullMachineId(topic[2], topic[3]))

\* on_message run to its end on the current state, as a working record
RunMessage(topic, raw, oks) ==
    LET w0 == [World(oks) EXCEPT !.stats.messages_processed = @ + 1]
    IN  IF raw.decodable THEN Route(w0, topic, raw.fields, now) ELSE w0

\* lines 226-260 of the handler run that is under way
RunResume(oks) ==
    RecordSensorData(World(oks), pending.topic[2], pending.topic[3],
                     pending.topic[5], pending.raw.fields, now)

\* perform_health_check on the current state
RunHealthCheck(oks) == HealthCheckFrom(World(oks), 1, now)

\* the answers the transport can give to the publish calls of a run
Answers(w) == [1..Len(w.published) -> BOOLEAN]

\* on_message, run to its end
OnMessage(topic, raw) ==
    /\ ~pending.active
    /\ ~CreatesMachine(topic, raw)
    /\ \E oks \in Answers(RunMessage(topic, raw, << >>)) :
          Commit(RunMessage(topic, raw, oks), "message", topic, raw)
    /\ UNCHANGED <<now, pending>>

\* on_message for a sensor event of an unknown device, up to the creation
\* of its Machine (lines 181-224)
OnMessageRegister(topic, raw) ==
    /\ ~pending.active
    /\ CreatesMachine(topic, raw)
    /\ LET w0 == [World(<< >>) EXCEPT !.stats.messages_processed = @ + 1]
           w == RegisterMachine(w0, topic[2], topic[3], raw.fields)
       IN  Commit(w, "register", topic, raw)
    /\ pending' = [active |-> TRUE, topic |-> topic, raw |-> raw]
    /\ UNCHANGED now

\* the rest of that handler run (lines 226-260)
OnMessageResume ==
    /\ pending.active
    /\ \E oks \in Answers(RunResume(<< >>)) :
          Commit(RunResume(oks), "message", pending.topic, pending.raw)
    /\ pending' = NoPending
    /\ UNCHANGED now

\* perform_health_check, one sweep of the 30-second loop
PerformHealthCheck ==
    /\ \E oks \in Answers(RunHealthCheck(<< >>)) :
          Commit(RunHealthCheck(oks), "sweep", << >>, Undecodable)
    /\ UNCHANGED <<now, pending>>

\* a minute passes.  The code reads only differences of clock values, so
\* the clock is taken to start when the first Machine is registered.
Tick ==
    /\ machines # << >>
    /\ now < MaxTime
    /\ now' = now + 1
    /\ published' = << >>
    /\ lastOp' = [op |-> "tick", topic |-> << >>, raw |-> Undecodable,
                  alerts |-> << >>, readings |-> << >>]
    /\ UNCHANGED <<machines, production_lines, stats, pending, status_history,
                   accepted, raised, sweepAlerts>>
    /\ UNCHANGED <<controllerVars, threadVars, trendCall>>

---------------------------------------------------------------------------
(* The health-check thread (start_background_tasks).  hc.pc is the place   *)
(* the thread is at:                                                       *)
(*   "test"    about to test self.running (line 643)                      *)
(*   "sleep"   in time.sleep(30) (line 644)                               *)
(*   "next"    in perform_health_check, about to take the next Machine     *)
(*             from the iterator over self.machines.values() (line 660)    *)
(*   "status"  line 665 found the Machine overdue; about to test its       *)
(*             status (line 666)                                           *)
(*   "count"   in generate_alert, self.stats["alerts_generated"] read and  *)
(*             not yet written back (line 383)                             *)
(*   "returned" the loop has ended, "raised" an exception has ended it     *)

\* the alert perform_health_check hands to generate_alert (lines 668-672)
\* and generate_alert builds (lines 360-369)
OfflineAlert(machine, t) ==
    [machine_id |-> machine.machine_id, level |-> "warning",
     message |-> [fmt |-> "Machine went offline (last seen)",
                  s |-> NoneStr, n |-> machine.last_seen],
     sensor_type |-> NoneStr, value |-> None, threshold |-> None,
     timestamp |-> t, acknowledged |-> FALSE]

NoAlert ==
    [machine_id |-> << >>, level |-> "info",
     message |-> [fmt |-> "", s |-> NoneStr, n |-> None],
     sensor_type |-> NoneStr, value |-> None, threshold |-> None,
     timestamp |-> None, acknowledged |-> FALSE]

\* the thread as start_background_tasks starts it.  i is the position of
\* the iterator, used the size of the dict when the iterator was made,
\* read the value of the counter read at line 383, alert the alert of the
\* generate_alert call under way; stopped tells that self.running was
\* already False when the sweep under way began
LoopStart ==
    [pc |-> "test", i |-> 0, used |-> 0, current_time |-> None,
     read |-> 0, alert |-> NoAlert, stopped |-> FALSE]

\* while self.running (line 643)
LoopTest ==
    /\ hc.pc = "test"
    /\ hc' = [hc EXCEPT !.pc = IF running THEN "sleep" ELSE "returned"]
    /\ UNCHANGED <<monitorVars, controllerVars, running, trendCall>>

\* time.sleep(30) ends (line 644) and perform_health_check begins: it reads
\* the clock (line 658) and makes the iterator of the for statement
SweepBegin ==
    /\ hc.pc = "sleep"
    /\ hc' = [hc EXCEPT !.pc = "next", !.i = 0, !.used = Len(machines),
                         !.current_time = now, !.stopped = ~running]
    /\ UNCHANGED <<monitorVars, controllerVars, running, trendCall>>

\* the for statement asks the iterator for the next Machine (line 660): a
\* dict whose size changed since the iterator was made raises RuntimeError,
\* which nothing catches; otherwise lines 661-665 test last_seen
SweepNext ==
    /\ hc.pc = "next"
    /\ hc' = IF Len(machines) # hc.used
             THEN [hc EXCEPT !.pc = "raised"]
             ELSE IF hc.i = Len(machines)
             THEN [hc EXCEPT !.pc = "test"]
             ELSE LET machine == machines[hc.i + 1]
                  IN  [hc EXCEPT
                         !.i = @ + 1,
                         !.pc = IF /\ machine.last_seen # None
                                   /\ hc.current_time - machine.last_seen > OfflineTimeout
                                THEN "status" ELSE "next"]
    /\ UNCHANGED <<monitorVars, controllerVars, running, trendCall>>

\* lines 666-672 and generate_alert up to the read of the counter (line 383):
\* the test of the status, the write of OFFLINE, the alert built and
\* appended to the Machine's list
SweepStatus ==
    /\ hc.pc = "status"
    /\ IF machines[hc.i].status # "offline"
       THEN LET alert == OfflineAlert(machines[hc.i], now)
                w == [World(<< >>) EXCEPT
                        !.machines = AppendAlert(
                            [@ EXCEPT ![hc.i].status = "offline"],
                            alert.machine_id, alert),
                        !.alerts = <<alert>>]
            IN  /\ Apply(w, "sweep", << >>, Undecodable)
                /\ hc' = [hc EXCEPT !.pc = "count", !.alert = alert,
                                     !.read = stats.alerts_generated]
       ELSE /\ hc' = [hc EXCEPT !.pc = "next"]
            /\ UNCHANGED <<machines, production_lines, stats, published, lastOp,
                           status_history, accepted, raised, sweepAlerts>>
    /\ UNCHANGED <<now, pending, controllerVars, running, trendCall>>

\* the rest of generate_alert: the counter written back (line 383) and
\* publish_alert (line 394)
SweepCount ==
    /\ hc.pc = "count"
    /\ \E ok \in BOOLEAN :
          LET w == PublishAlert(
                       [World(<<ok>>) EXCEPT !.stats.alerts_generated = hc.read + 1],
                       hc.alert)
          IN  Apply(w, "sweep", << >>, Undecodable)
    /\ hc' = [hc EXCEPT !.pc = "next", !.alert = NoAlert, !.read = 0]
    /\ UNCHANGED <<now, pending, controllerVars, running, trendCall>>

\* the steps of health_check_loop
HealthCheckLoop == LoopTest \/ SweepBegin \/ SweepNext \/ SweepStatus \/ SweepCount

\* disconnect(): self.running = False; the network loop is stopped, so no
\* further message is taken
Disconnect ==
    /\ running
    /\ running' = FALSE
    /\ UNCHANGED <<monitorVars, controllerVars, hc, trendCall>>

---------------------------------------------------------------------------
(* Calls of calculate_trend *)

\* no call of calculate_trend is under way
NoTrendCall ==
    [called |-> FALSE, values |-> << >>, returned |-> FALSE, trend |-> Rat(0, 1)]

\* one call of calculate_trend returns
CalculateTrendCall ==
    /\ trendCall.called
    /\ ~trendCall.returned
    /\ trendCall' = [trendCall EXCEPT !.returned = TRUE,
                                       !.trend = CalculateTrend(trendCall.values)]
    /\ UNCHANGED <<monitorVars, controllerVars, threadVars>>

---------------------------------------------------------------------------
(* SmartHomeController: the topic matcher *)

\* "/".join(segments): the topic or pattern with these segments
Path(segments) == Join("/", segments)

\* only the literal segments are compared: '+' is an ordinary segment
TopicMatchesPattern_PlusIsLiteral(topic, pattern) ==
    LET topic_parts == Split(topic, "/")
        pattern_parts == Split(pattern, "/")
    IN  IF Len(topic_parts) # Len(pattern_parts) THEN FALSE
        ELSE \A i \in 1..Len(pattern_parts) :
                ~(pattern_parts[i] # Str("#") /\ pattern_parts[i] # topic_parts[i])

\* zip() alone decides: the segments beyond the shorter list are not looked at
TopicMatchesPattern_NoLengthCheck(topic, pattern) ==
    LET topic_parts == Split(topic, "/")
        pattern_parts == Split(pattern, "/")
        n == IF Len(topic_parts) < Len(pattern_parts)
             THEN Len(topic_parts) ELSE Len(pattern_parts)
    IN  \A i \in 1..n :
           ~(/\ pattern_parts[i] # Str("+")
             /\ pattern_parts[i] # Str("#")
             /\ pattern_parts[i] # topic_parts[i])

\* topic_matches_pattern(topic, pattern)
TopicMatchesPattern(topic, pattern) ==
    LET topic_parts == Split(topic, "/")
        pattern_parts == Split(pattern, "/")
    IN  IF Len(topic_parts) # Len(pattern_parts) THEN FALSE
        ELSE \A i \in 1..Len(pattern_parts) :
                ~(/\ pattern_parts[i] # Str("+")
                  /\ pattern_parts[i] # Str("#")
                  /\ pattern_parts[i] # topic_parts[i])

\* no call of the matcher is under way
NoCall ==
    [topic |-> << >>, pattern |-> << >>, returned |-> FALSE, result |-> FALSE,
     topic_segments |-> << >>, pattern_segments |-> << >>]

\* one call of topic_matches_pattern returns
TopicMatchesPatternCall ==
    /\ ~matcher.returned
    /\ matcher' = [matcher EXCEPT
                      !.returned = TRUE,
                      !.result = TopicMatchesPattern(matcher.topic, matcher.pattern)]
    /\ UNCHANGED <<devices, automation_rules, homeOp, homeMsgs>>
    /\ UNCHANGED <<monitorVars, threadVars, trendCall>>

---------------------------------------------------------------------------
(* SmartHomeController: payloads and automation rules *)

\* a JSON true or false; a Python bool is the int 1 or 0
JBool(b) == [t |-> "bool", n |-> IF b THEN 1 ELSE 0, s |-> << >>]

\* json.loads gives a dict
JsonObject(fields) == [decodable |-> TRUE, kind |-> "object", fields |-> fields, n |-> 0]

\* json.loads gives a number, which has no .get and is no mapping
JsonNumber(n) == [decodable |-> TRUE, kind |-> "number", fields |-> NoFields, n |-> n]

\* json.loads raises JSONDecodeError
NotJson == [decodable |-> FALSE, kind |-> "none", fields |-> NoFields, n |-> 0]

\* bool(x) of a decoded JSON value
Truthy(j) ==
    IF j.t \in {"bool", "num"} THEN j.n # 0
    ELSE IF j.t = "str" THEN j.s # << >>
    ELSE TRUE

\* lambda data: data.get(key, False)
TruthyOf(key) == [kind |-> "truthy", key |-> key, than |-> 0]

\* lambda data: data.get(key, 0) > than
GreaterThan(key, than) == [kind |-> "greater", key |-> key, than |-> than]

\* rule["condition"](payload): "true", "false", or "raise" when the call
\* raises (AttributeError: the payload has no .get; TypeError: a str is
\* compared with an int)
Condition(rule, payload) ==
    IF payload.kind # "object" THEN "raise"
    ELSE IF rule.condition.kind = "truthy"
    THEN IF Truthy(Get(payload.fields, rule.condition.key, JBool(FALSE)))
         THEN "true" ELSE "false"
    ELSE LET v == Get(payload.fields, rule.condition.key, JNum(0))
         IN  IF v.t \notin {"num", "bool"} THEN "raise"
             ELSE IF v.n > rule.condition.than THEN "true" ELSE "false"

\* "home/{room}/<device>/command"; the placeholder is one token
CommandTemplate(device) ==
    <<"home", "/", "{room}", "/", device, "/", "command">>

motion_rule ==
    [name |-> "Motion Light Control",
     trigger_topic |-> Path(<<Str("home"), Str("+"), Str("motion"), Str("detected")>>),
     condition |-> TruthyOf("detected"),
     actions |-> <<[topic_template |-> CommandTemplate("light"),
                    payload |-> "state" :> JStr(Str("on")) @@ "brightness" :> JNum(80)]>>]

temperature_rule ==
    [name |-> "Temperature Control",
     trigger_topic |-> Path(<<Str("home"), Str("+"), Str("temperature"), Str("value")>>),
     condition |-> GreaterThan("temperature", 28),
     actions |-> <<[topic_template |-> CommandTemplate("ac"),
                    payload |-> "state" :> JStr(Str("on")) @@ "mode" :> JStr(Str("cool"))
                                @@ "temperature" :> JNum(24)]>>]

\* setup_default_automation_rules
DefaultRules == <<motion_rule, temperature_rule>>

RECURSIVE Replace(_, _, _)
\* s.replace(old, new), old a single token
Replace(s, old, new) ==
    IF s = << >> THEN << >>
    ELSE (IF Head(s) = old THEN new ELSE <<Head(s)>>) \o Replace(Tail(s), old, new)

\* json.dumps(obj): the text of the object
Dumps(obj) == [json |-> obj]

\* s.startswith(prefix)
StartsWith(s, prefix) ==
    Len(s) >= Len(prefix) /\ SubSeq(s, 1, Len(prefix)) = prefix

---------------------------------------------------------------------------
(* SmartHomeController: the rule engine *)

\* the working record of one on_message run of the controller: the devices,
\* the client.publish calls made so far, whether an exception is travelling
\* to the handler of line 131, whether check_automation_rules was entered,
\* and the rules (by position) whose condition was called and that fired
Run0 ==
    [devices |-> devices, published |-> << >>, raised |-> FALSE,
     engine |-> FALSE, evaluated |-> << >>, fired |-> << >>]

\* self.client.publish(topic, payload, qos=1); the result is only logged
HomePublish(h, topic, payload, rule) ==
    [h EXCEPT !.published =
        Append(@, [topic |-> topic, payload |-> payload, qos |-> 1, rule |-> rule])]

\* topic_parts[1] if len(topic_parts) > 1 else "unknown"
RoomOf(trigger_topic) ==
    LET topic_parts == Split(trigger_topic, "/")
    IN  IF Len(topic_parts) > 1 THEN topic_parts[2] ELSE Str("unknown")

RECURSIVE ExecuteRuleActionsFrom(_, _, _, _, _)
\* the loop of execute_rule_actions from the k-th action on
ExecuteRuleActionsFrom(h, actions, k, room, rule) ==
    IF k > Len(actions) THEN h
    ELSE ExecuteRuleActionsFrom(
             HomePublish(h, Replace(actions[k].topic_template, "{room}", room),
                         Dumps(actions[k].payload), rule),
             actions, k + 1, room, rule)

\* the loop ends after the first action
ExecuteRuleActions_FirstActionOnly(h, actions, trigger_topic, rule) ==
    IF actions = << >> THEN h
    ELSE ExecuteRuleActionsFrom(h, <<actions[1]>>, 1, RoomOf(trigger_topic), rule)

\* execute_rule_actions(actions, trigger_topic, trigger_payload), called for
\* the rule at position `rule`
ExecuteRuleActions(h, actions, trigger_topic, rule) ==
    ExecuteRuleActionsFrom(h, actions, 1, RoomOf(trigger_topic), rule)

RECURSIVE CheckAutomationRulesFrom(_, _, _, _, _)
\* the loop of check_automation_rules from the i-th rule on; an exception
\* raised by a condition leaves the loop
CheckAutomationRulesFrom(h, rules, i, topic, payload) ==
    IF i > Len(rules) THEN h
    ELSE IF ~TopicMatchesPattern(topic, rules[i].trigger_topic)
    THEN CheckAutomationRulesFrom(h, rules, i + 1, topic, payload)
    ELSE LET c == Condition(rules[i], payload)
             h1 == [h EXCEPT !.evaluated = Append(@, i)]
         IN  IF c = "raise" THEN [h1 EXCEPT !.raised = TRUE]
             ELSE IF c = "true"
             THEN CheckAutomationRulesFrom(
                      ExecuteRuleActions([h1 EXCEPT !.fired = Append(@, i)],
                                         rules[i].actions, topic, i),
                      rules, i + 1, topic, payload)
             ELSE CheckAutomationRulesFrom(h1, rules, i + 1, topic, payload)

\* check_automation_rules(topic, payload)
CheckAutomationRules(h, rules, topic, payload) ==
    CheckAutomationRulesFrom([h EXCEPT !.engine = TRUE], rules, 1, topic, payload)

---------------------------------------------------------------------------
(* SmartHomeController: the shape handlers and on_message *)

\* Device.data is None
NoData == [none |-> TRUE, items |-> [k \in {} |-> JNum(0)]]

\* a value kept in Device.data: one JSON value, or the whole payload
Item(j) == [whole |-> FALSE, value |-> j, payload |-> NotJson]

WholePayload(payload) == [whole |-> TRUE, value |-> JNum(0), payload |-> payload]

\* d[key] = value
SetItem(d, key, value) ==
    [k \in DOMAIN d \cup {key} |-> IF k = key THEN value ELSE d[k]]

\* d.update(payload) for a dict payload
UpdateItems(d, fields) ==
    [k \in DOMAIN d \cup {Str(f) : f \in DOMAIN fields} |->
        IF \E f \in DOMAIN fields : Str(f) = k
        THEN Item(fields[CHOOSE f \in DOMAIN fields : Str(f) = k])
        ELSE d[k]]

\* Device(device_id=..., device_type=..., room=...)
NewDevice(device_id, device_type, room) ==
    [device_id |-> device_id, device_type |-> device_type, room |-> room,
     status |-> JStr(Str("unknown")), last_seen |-> None, data |-> NoData]

\* the position of device_id in self.devices, 0 when it is not a key
DeviceIndex(ds, device_id) ==
    IF \E i \in 1..Len(ds) : ds[i].device_id = device_id
    THEN CHOOSE i \in 1..Len(ds) : ds[i].device_id = device_id
    ELSE 0

\* lines 156-165: the write into device.data for the metric; a payload that
\* is no dict raises at .get (AttributeError) or at update (TypeError)
StoreMetric(h, i, metric, payload) ==
    LET isObject == payload.kind = "object"
        Put(key, value) == [h EXCEPT !.devices[i].data.items = SetItem(@, key, value)]
    IN  IF metric = Str("temperature") \/ metric = Str("humidity")
        THEN IF ~isObject THEN [h EXCEPT !.raised = TRUE]
             ELSE Put(metric, IF "value" \in DOMAIN payload.fields
                              THEN Item(payload.fields["value"])
                              ELSE WholePayload(payload))
        ELSE IF metric = Str("motion")
        THEN IF ~isObject THEN [h EXCEPT !.raised = TRUE]
             ELSE Put(<<"motion", "_", "detected">>,
                      Item(Get(payload.fields, "detected", JBool(FALSE))))
        ELSE IF metric = Str("light")
        THEN IF ~isObject THEN [h EXCEPT !.raised = TRUE]
             ELSE [h EXCEPT !.devices[i].data.items = UpdateItems(@, payload.fields)]
        ELSE Put(metric, WholePayload(payload))

\* handle_device_message(topic_parts, payload) at time t
HandleDeviceMessage(h, topic_parts, payload, t) ==
    IF Len(topic_parts) >= 4
    THEN LET room == topic_parts[2]
             device_type == topic_parts[3]
             metric == topic_parts[4]
             device_id == room \o <<"_">> \o device_type
             h1 == IF DeviceIndex(h.devices, device_id) = 0
                   THEN [h EXCEPT !.devices =
                            Append(@, NewDevice(device_id, device_type, room))]
                   ELSE h
             i == DeviceIndex(h1.devices, device_id)
             h2 == [h1 EXCEPT !.devices[i].last_seen = t,
                              !.devices[i].status = JStr(Str("online")),
                              !.devices[i].data.none = FALSE]
         IN  StoreMetric(h2, i, metric, payload)
    ELSE h

\* handle_device_status(topic_parts, payload)
HandleDeviceStatus(h, topic_parts, payload) ==
    IF Len(topic_parts) >= 3
    THEN IF payload.kind # "object" THEN [h EXCEPT !.raised = TRUE]
         ELSE LET i == DeviceIndex(h.devices, topic_parts[2])
                  status == Get(payload.fields, "status", JStr(Str("unknown")))
              IN  IF i # 0 THEN [h EXCEPT !.devices[i].status = status] ELSE h
    ELSE h

\* publish_broadcast_command(device_type, command)
PublishBroadcastCommand(h, device_type, command) ==
    HomePublish(h, <<"broadcast", "/", device_type, "/", "command">>, Dumps(command), 0)

RECURSIVE LightsOnFrom(_, _)
\* the loop of lines 237-241 from the i-th device on
LightsOnFrom(h, i) ==
    IF i > Len(h.devices) THEN h
    ELSE IF h.devices[i].device_type = Str("light")
    THEN LightsOnFrom(
             HomePublish(h, <<"home", "/">> \o h.devices[i].room
                            \o <<"/", "light", "/", "command">>,
                         Dumps("state" :> JStr(Str("on")) @@ "brightness" :> JNum(100)),
                         0),
             i + 1)
    ELSE LightsOnFrom(h, i + 1)

\* trigger_emergency_protocol(alert_type)
TriggerEmergencyProtocol(h, alert_type) ==
    IF alert_type = "fire"
    THEN PublishBroadcastCommand(LightsOnFrom(h, 1), "plug",
             "state" :> JStr(Str("off")) @@ "exclude" :> JStr(Str("emergency")))
    ELSE IF alert_type = "security"
    THEN PublishBroadcastCommand(h, "light",
             "state" :> JStr(Str("on")) @@ "brightness" :> JNum(100))
    ELSE h

\* handle_alert_message(topic_parts, payload)
HandleAlertMessage(h, topic_parts, payload) ==
    LET alert_type == IF Len(topic_parts) > 1 THEN topic_parts[2] ELSE Str("unknown")
    IN  IF alert_type = Str("fire") THEN TriggerEmergencyProtocol(h, "fire")
        ELSE IF alert_type = Str("security") THEN TriggerEmergencyProtocol(h, "security")
        ELSE h

\* lines 117-124 of on_message: the handler for the topic's prefix
RouteHome(h, topic, payload, t) ==
    LET topic_parts == Split(topic, "/")
    IN  IF StartsWith(topic, <<"home", "/">>)
        THEN HandleDeviceMessage(h, topic_parts, payload, t)
        ELSE IF StartsWith(topic, <<"devices", "/">>)
        THEN HandleDeviceStatus(h, topic_parts, payload)
        ELSE IF StartsWith(topic, <<"alerts", "/">>)
        THEN HandleAlertMessage(h, topic_parts, payload)
        ELSE h

\* the payload is routed whether or not json.loads decoded it
RunController_NoDecodeCheck(topic, raw) ==
    LET h == RouteHome(Run0, topic, raw, now)
    IN  IF h.raised THEN h
        ELSE CheckAutomationRules(h, automation_rules, topic, raw)

\* SmartHomeController.on_message run to its end, as a working record
RunController(topic, raw) ==
    IF ~raw.decodable THEN Run0
    ELSE LET h == RouteHome(Run0, topic, raw, now)
         IN  IF h.raised THEN h
             ELSE CheckAutomationRules(h, automation_rules, topic, raw)

\* the latest run, as the ghost variable records it
NoRun ==
    [topic |-> << >>, raw |-> NotJson, handled |-> FALSE, engine |-> FALSE,
     raised |-> FALSE, evaluated |-> << >>, fired |-> << >>, published |-> << >>]

\* SmartHomeController.on_message(client, userdata, msg)
ControllerOnMessage(topic, raw) ==
    /\ LET h == RunController(topic, raw)
       IN  /\ devices' = h.devices
           /\ homeOp' = [topic |-> topic, raw |-> raw, handled |-> TRUE,
                         engine |-> h.engine, raised |-> h.raised,
                         evaluated |-> h.evaluated, fired |-> h.fired,
                         published |-> h.published]
    /\ homeMsgs' = homeMsgs + 1
    /\ UNCHANGED <<matcher, automation_rules>>
    /\ UNCHANGED <<monitorVars, threadVars, trendCall>>

\* IndustrialIoTMonitor.__init__
MonitorInit ==
    /\ machines = << >>
    /\ production_lines = [l \in ConfiguredLines |-> << >>]
    /\ stats = [messages_processed |-> 0, alerts_generated |-> 0,
                machines_online |-> 0, total_downtime |-> 0]
    /\ now = 0
    /\ pending = NoPending
    /\ published = << >>
    /\ lastOp = [op |-> "init", topic |-> << >>, raw |-> Undecodable,
                 alerts |-> << >>, readings |-> << >>]
    /\ status_history = << >>
    /\ accepted = << >>
    /\ raised = << >>
    /\ sweepAlerts = << >>
    /\ running = TRUE
    /\ hc = LoopStart

\* SmartHomeController.__init__, with the rules configured at startup
ControllerInit(rules) ==
    /\ devices = << >>
    /\ automation_rules = rules
    /\ homeOp = NoRun
    /\ homeMsgs = 0

Init ==
    /\ MonitorInit
    /\ ControllerInit(DefaultRules)
    /\ matcher = NoCall
    /\ trendCall = NoTrendCall

---------------------------------------------------------------------------
(* Inputs of the bounded model *)

LineA == <<"line", "_", "a">>

Line == <<"line">>

\* (zone, device) segments of inbound topics
Pairs == {<<LineA, Str("m")>>, <<Line, Str("m")>>}

DeviceTopic(p, rest) == <<Str("factory"), p[1], p[2]>> \o rest

SensorEvents(p) ==
    {<<DeviceTopic(p, <<Str("sensors"), Str("temperature")>>),
       Decoded("value" :> JNum(v))>> : v \in {79, 80, 95}}
    \cup {<<DeviceTopic(p, <<Str("sensors"), Str("humidity")>>),
            Decoded("value" :> JNum(95))>>,
          <<DeviceTopic(p, <<Str("sensors"), Str("temperature")>>),
            Decoded("value" :> JStr(Str("hot")))>>}

StatusEvents(p) ==
    {<<DeviceTopic(p, <<Str("status")>>), Decoded("status" :> JStr(Str(x)))>> :
        x \in {"idle", "error", "offline"}}

MaintenanceEvents(p) ==
    {<<DeviceTopic(p, <<Str("maintenance")>>), Decoded("type" :> JStr(Str("routine")))>>}

MalformedEvents ==
    {<<DeviceTopic(p, <<Str("sensors"), Str("temperature")>>), Undecodable>> :
        p \in {<<Line, Str("m")>>}}

Events ==
    UNION {SensorEvents(p) \cup StatusEvents(p) \cup MaintenanceEvents(p) : p \in Pairs}
    \cup MalformedEvents

\* the bounded run takes MaxMsgs inbound messages
Budget == stats.messages_processed < MaxMsgs

Next ==
    \/ \E e \in Events : Budget /\ OnMessage(e[1], e[2])
    \/ \E e \in Events : Budget /\ OnMessageRegister(e[1], e[2])
    \/ OnMessageResume
    \/ PerformHealthCheck
    \/ Tick

Spec == Init /\ [][Next]_vars

---------------------------------------------------------------------------
(* Calls of the topic matcher: every topic of at most MaxTopicSegs         *)
(* segments and every pattern of at most MaxPatternSegs segments over a    *)
(* small alphabet (the empty segment included), and the topics and         *)
(* patterns the specification gives as examples.                           *)

MaxTopicSegs == 3

MaxPatternSegs == 3

SeqsUpTo(S, n) == UNION {[1..k -> S] : k \in 1..n}

MatchNames == {Str("a"), Str("b"), << >>}

Wildcards == {Str("+"), Str("#")}

\* the segments of the topics, and of the patterns, the matcher is called on
MatchTopics ==
    SeqsUpTo(MatchNames, MaxTopicSegs)
    \cup {<<Str("a"), Str("b"), Str("c")>>,
          <<Str("a"), Str("b"), Str("c"), Str("d")>>}

MatchPatterns ==
    SeqsUpTo(MatchNames \cup Wildcards, MaxPatternSegs)
    \cup {<<Str("a"), Str("+"), Str("c")>>,
          <<Str("a"), Str("+"), Str("+"), Str("d")>>,
          <<Str("a"), Str("#"), Str("c")>>}

InitMatch ==
    /\ MonitorInit
    /\ ControllerInit(DefaultRules)
    /\ matcher \in {[topic |-> Path(t), pattern |-> Path(q),
                      returned |-> FALSE, result |-> FALSE,
                      topic_segments |-> t, pattern_segments |-> q] :
                       t \in MatchTopics, q \in MatchPatterns}
    /\ trendCall = NoTrendCall

NextMatch == TopicMatchesPatternCall

SpecMatch == InitMatch /\ [][NextMatch]_vars

---------------------------------------------------------------------------
(* Runs of the controller: MaxHomeMsgs inbound messages, under the default *)
(* rules or under the default rules followed by two more rules whose       *)
(* patterns overlap the default ones.                                      *)

MaxHomeMsgs == 2

\* a second rule for motion events, with two actions
presence_rule ==
    [name |-> "Presence Devices",
     trigger_topic |-> Path(<<Str("home"), Str("+"), Str("+"), Str("detected")>>),
     condition |-> TruthyOf("detected"),
     actions |-> <<[topic_template |-> CommandTemplate("fan"),
                    payload |-> "state" :> JStr(Str("on"))],
                   [topic_template |-> CommandTemplate("camera"),
                    payload |-> "state" :> JStr(Str("record"))]>>]

\* a second rule for temperature events
display_rule ==
    [name |-> "Temperature Display",
     trigger_topic |-> Path(<<Str("home"), Str("+"), Str("temperature"), Str("+")>>),
     condition |-> TruthyOf("temperature"),
     actions |-> <<[topic_template |-> CommandTemplate("display"),
                    payload |-> "state" :> JStr(Str("on"))]>>]

Configurations == {DefaultRules, DefaultRules \o <<presence_rule, display_rule>>}

Rooms == {Str("kitchen"), <<"living", "_", "room">>}

HomeTopic(r, device_type, metric) == Path(<<Str("home"), r, device_type, metric>>)

MotionEvents(r) ==
    {HomeTopic(r, Str("motion"), Str("detected"))}
    \X {JsonObject("detected" :> JBool(TRUE)), JsonObject("detected" :> JBool(FALSE)),
        JsonObject(NoFields), JsonNumber(21), NotJson}

TemperatureEvents(r) ==
    {HomeTopic(r, Str("temperature"), Str("value"))}
    \X {JsonObject("temperature" :> JNum(30)), JsonObject("temperature" :> JNum(28)),
        JsonObject("temperature" :> JStr(Str("hot"))), JsonObject(NoFields)}

\* topics whose fourth segment is a metric the device handler knows
MetricEvents(r) ==
    {HomeTopic(r, Str("thermo"), Str("temperature")),
     HomeTopic(r, Str("light"), Str("light"))}
    \X {JsonObject("value" :> JNum(21)), JsonNumber(21)}

DeviceStatusEvents(r) ==
    {Path(<<Str("devices"), r \o <<"_", "motion">>, Str("status")>>)}
    \X {JsonObject("status" :> JStr(Str("offline"))), JsonObject(NoFields)}

AlertEvents ==
    {Path(<<Str("alerts"), Str("fire"), Str("smoke")>>),
     Path(<<Str("alerts"), Str("security"), Str("door")>>)}
    \X {JsonObject(NoFields)}

HomeEvents ==
    UNION {MotionEvents(r) \cup TemperatureEvents(r) \cup MetricEvents(r)
           \cup DeviceStatusEvents(r) : r \in Rooms}
    \cup AlertEvents

InitHome ==
    /\ MonitorInit
    /\ matcher = NoCall
    /\ \E rules \in Configurations : ControllerInit(rules)
    /\ trendCall = NoTrendCall

NextHome ==
    \E e \in HomeEvents : homeMsgs < MaxHomeMsgs /\ ControllerOnMessage(e[1], e[2])

SpecHome == InitHome /\ [][NextHome]_vars

---------------------------------------------------------------------------
(* Both programs taking decodable and undecodable messages: the monitor    *)
(* MaxMsgs of them, the controller MaxHomeMsgs.                            *)

IngestPair == <<Line, Str("m")>>

\* the only decodable message of the monitor here is one critical reading
IngestEvents ==
    {<<DeviceTopic(IngestPair, <<Str("sensors"), Str("temperature")>>),
       Decoded("value" :> JNum(95))>>,
     <<DeviceTopic(IngestPair, <<Str("sensors"), Str("temperature")>>), Undecodable>>,
     <<DeviceTopic(IngestPair, <<Str("status")>>), Undecodable>>}

IngestHomeEvents ==
    ({HomeTopic(Str("kitchen"), Str("motion"), Str("detected"))}
     \X {JsonObject("detected" :> JBool(TRUE)), NotJson})
    \cup ({HomeTopic(Str("kitchen"), Str("light"), Str("light"))}
          \X {JsonObject("value" :> JNum(21)), NotJson})
    \cup ({Path(<<Str("alerts"), Str("fire"), Str("smoke")>>)}
          \X {JsonObject(NoFields), NotJson})

NextIngest ==
    \/ \E e \in IngestEvents : Budget /\ OnMessage(e[1], e[2])
    \/ \E e \in IngestEvents : Budget /\ OnMessageRegister(e[1], e[2])
    \/ OnMessageResume
    \/ \E e \in IngestHomeEvents :
          homeMsgs < MaxHomeMsgs /\ ControllerOnMessage(e[1], e[2])

SpecIngest == Init /\ [][NextIngest]_vars

---------------------------------------------------------------------------
(* A long run: MaxSoak inbound messages, the n-th fixed by n.  Out of ten  *)
(* messages seven are temperature readings of one device (each reading is  *)
(* sent twice, with the same value and timestamp), one is a maintenance    *)
(* event and one a status update to error for that device, and one is a    *)
(* temperature reading of a second device.                                 *)

SoakValues == <<79, 80, 95>>

SoakPair == <<LineA, Str("m")>>

SoakOtherPair == <<Line, Str("m")>>

SoakEvent(n) ==
    IF n % 10 = 4 THEN CHOOSE e \in MaintenanceEvents(SoakPair) : TRUE
    ELSE IF n % 10 = 9
    THEN <<DeviceTopic(SoakPair, <<Str("status")>>),
           Decoded("status" :> JStr(Str("error")))>>
    ELSE IF n % 10 = 7
    THEN <<DeviceTopic(SoakOtherPair, <<Str("sensors"), Str("temperature")>>),
           Decoded(("value" :> JNum(SoakValues[((n \div 10) % 3) + 1]))
                   @@ ("timestamp" :> JIso((n \div 10) % 4)))>>
    ELSE <<DeviceTopic(SoakPair, <<Str("sensors"), Str("temperature")>>),
           Decoded(("value" :> JNum(SoakValues[((n \div 2) % 3) + 1]))
                   @@ ("timestamp" :> JIso((n \div 2) % 5)))>>

SoakBudget == stats.messages_processed < MaxSoak

SoakNext ==
    \/ /\ SoakBudget
       /\ LET e == SoakEvent(stats.messages_processed)
          IN  OnMessage(e[1], e[2])
    \/ /\ SoakBudget
       /\ LET e == SoakEvent(stats.messages_processed)
          IN  OnMessageRegister(e[1], e[2])
    \/ OnMessageResume

SpecSoak == Init /\ [][SoakNext]_vars

---------------------------------------------------------------------------
(* Histories read off the ghost variables *)

\* the readings accepted for one (device, kind), in arrival order
AcceptedFor(id, kind) ==
    LET Mine(r) == r.machine_id = id /\ r.sensor_type = kind
    IN  SelectSeq(accepted, Mine)

\* the alerts raised for one device, in the order they were raised
RaisedFor(id) ==
    LET Mine(a) == a.machine_id = id
    IN  SelectSeq(raised, Mine)

Min(a, b) == IF a < b THEN a ELSE b

---------------------------------------------------------------------------
(* What the latest step did *)

Last(xs) == xs[Len(xs)]

\* the publishes of the latest step that are alert notifications
IsNotification(m) == Len(m.topic) = 3 /\ m.topic[2] = Str("alerts")

Notifications == SelectSeq(published, IsNotification)

\* the device a handled message names: f"{zone}_{device}"
OriginOf(topic) == topic[2] \o <<"_">> \o topic[3]

\* the reading has a threshold entry and is at or above its warning level
Alarming(r) ==
    /\ r.sensor_type \in DOMAIN alert_thresholds
    /\ r.value >= alert_thresholds[r.sensor_type].warning

---------------------------------------------------------------------------
(* C1: a sensor reading whose kind has a threshold entry and whose value   *)
(* is at or above the warning level raises exactly one alert, for its own  *)
(* device: Critical when the value is at or above the critical level,      *)
(* Warning otherwise, never both; the alert carries the reading's kind and *)
(* value and is the newest entry of the device's alert list.               *)
C1_OneAlertPerReading ==
    \A j \in 1..Len(lastOp.readings) :
       LET r == lastOp.readings[j]
       IN  Alarming(r) =>
              /\ Len(lastOp.alerts) = 1
              /\ lastOp.alerts[1].level =
                    (IF r.value >= alert_thresholds[r.sensor_type].critical
                     THEN "critical" ELSE "warning")
              /\ lastOp.alerts[1].machine_id = r.machine_id
              /\ lastOp.alerts[1].sensor_type = r.sensor_type
              /\ lastOp.alerts[1].value = r.value
              /\ Last(MachineOf(machines, r.machine_id).alerts) = lastOp.alerts[1]

\* a temperature reading of 95 (warning 80, critical 95) raised one
\* Critical alert and no Warning
C1_Witness ==
    /\ Len(lastOp.readings) = 1
    /\ lastOp.readings[1].sensor_type = Str("temperature")
    /\ lastOp.readings[1].value = 95
    /\ Len(lastOp.alerts) = 1
    /\ lastOp.alerts[1].level = "critical"

(* C2: a sensor reading whose kind has no threshold entry, or whose value  *)
(* is strictly below the warning level of its kind, raises no alert: the   *)
(* alert list of every device and the alert counter are as before.         *)
C2_QuietReadingRaisesNothing ==
    [][\A j \in 1..Len(lastOp'.readings) :
          ~Alarming(lastOp'.readings[j]) =>
             /\ lastOp'.alerts = << >>
             /\ raised' = raised
             /\ stats'.alerts_generated = stats.alerts_generated
             /\ Len(machines') = Len(machines)
             /\ \A i \in 1..Len(machines) : machines'[i].alerts = machines[i].alerts
             /\ Notifications' = << >>]_vars

\* a reading below the warning level was accepted for a device that
\* already had an alert
C2_Witness ==
    /\ Len(lastOp.readings) = 1
    /\ lastOp.readings[1].sensor_type = Str("temperature")
    /\ lastOp.readings[1].value = 79
    /\ MachineOf(machines, lastOp.readings[1].machine_id).alerts # << >>
    /\ lastOp.alerts = << >>

(* C3: every Critical alert raised while a message is handled causes       *)
(* exactly one emergency-stop publish at delivery assurance level 2,       *)
(* tagged auto_generated, on factory/<zone>/<device>/emergency with the    *)
(* zone and device segments of the inbound topic, whatever the names       *)
(* (line_a included).                                                      *)
C3_EmergencyStopAddressedToOrigin ==
    lastOp.op = "message" =>
       LET IsCritical(a) == a.level = "critical"
           ToOrigin(m) ==
               /\ m.topic = <<Str("factory"), lastOp.topic[2], lastOp.topic[3],
                              Str("emergency")>>
               /\ m.qos = 2
               /\ m.payload.command = "emergency_stop"
               /\ m.payload.auto_generated
       IN  Len(SelectSeq(published, ToOrigin))
              = Len(SelectSeq(lastOp.alerts, IsCritical))

(* C4: every call of generate_alert, whatever the severity, makes exactly  *)
(* one notification publish, on factory/alerts/<severity> and carrying the *)
(* alert; for a Critical alert also when the emergency-stop publish before *)
(* it failed.                                                              *)
C4_EveryAlertIsNotified ==
    /\ Len(Notifications) = Len(lastOp.alerts)
    /\ \A j \in 1..Len(lastOp.alerts) :
          /\ j <= Len(Notifications)
          /\ Notifications[j].topic =
                <<Str("factory"), Str("alerts"), Str(lastOp.alerts[j].level)>>
          /\ Notifications[j].payload.machine_id = lastOp.alerts[j].machine_id
          /\ Notifications[j].payload.message = lastOp.alerts[j].message

\* a Critical alert whose emergency-stop publish failed and whose
\* notification was published after it
C4_Witness ==
    /\ Len(lastOp.alerts) = 1
    /\ lastOp.alerts[1].level = "critical"
    /\ Len(published) = 2
    /\ Last(published[1].topic) = Str("emergency")
    /\ ~published[1].ok
    /\ published[2].topic = <<Str("factory"), Str("alerts"), Str("critical")>>

---------------------------------------------------------------------------
(* C5: the window of each (device, kind) pair is exactly the last          *)
(* min(n, 1000) readings accepted for the pair, in arrival order, n being  *)
(* the number accepted: never longer than 1000, the oldest evicted first,  *)
(* a replayed event stored twice, one entry more per accepted event below  *)
(* the cap; and a pair has a window once a reading was accepted for it.    *)
C5_WindowIsLastAccepted ==
    /\ \A i \in 1..Len(machines) :
          \A kind \in DOMAIN machines[i].sensor_data :
             LET window == machines[i].sensor_data[kind]
                 hist == AcceptedFor(machines[i].machine_id, kind)
             IN  /\ Len(window) = Min(Len(hist), 1000)
                 /\ \A j \in 1..Len(window) :
                       window[j] = hist[Len(hist) - Len(window) + j]
    /\ \A j \in 1..Len(accepted) :
          /\ InRegistry(machines, accepted[j].machine_id)
          /\ accepted[j].sensor_type \in
                DOMAIN MachineOf(machines, accepted[j].machine_id).sensor_data

\* a window that has overflowed by more than one reading and whose history
\* holds a replayed (identical, adjacent) reading
C5_Witness ==
    \E i \in 1..Len(machines) :
       \E kind \in DOMAIN machines[i].sensor_data :
          LET hist == AcceptedFor(machines[i].machine_id, kind)
          IN  /\ Len(hist) >= 1002
              /\ Len(machines[i].sensor_data[kind]) = 1000
              /\ hist[1] = hist[2]
              /\ hist[2] # hist[3]

(* C6: each registered device's alert list holds at most 100 alerts and    *)
(* equals the last min(k, 100) alerts raised for the device, in the order  *)
(* raised (most recent last), k being the number raised.                   *)
C6_AlertListIsLastRaised ==
    /\ \A i \in 1..Len(machines) :
          LET alerts == machines[i].alerts
              hist == RaisedFor(machines[i].machine_id)
          IN  /\ Len(alerts) = Min(Len(hist), 100)
              /\ \A j \in 1..Len(alerts) :
                    alerts[j] = hist[Len(hist) - Len(alerts) + j]
    /\ \A j \in 1..Len(raised) : InRegistry(machines, raised[j].machine_id)

\* a device for which more than 100 alerts of several severities were raised
C6_Witness ==
    \E i \in 1..Len(machines) :
       LET hist == RaisedFor(machines[i].machine_id)
       IN  /\ Len(hist) >= 102
           /\ Len(machines[i].alerts) = 100
           /\ {hist[j].level : j \in 1..Len(hist)} = {"info", "warning", "critical"}
           /\ machines[i].alerts[1] # machines[i].alerts[2]

(* C7: a sweep sets a device Offline and raises exactly one Warning alert *)
(* for it, reporting its last-seen time, if and only if the device has a   *)
(* last-seen time, now - lastSeen is strictly more than 5 minutes and its  *)
(* status is not already Offline; every other device is left unchanged     *)
(* and gets no alert.                                                      *)
C7_SweepDemotesExactlyTheOverdue ==
    [][lastOp'.op = "sweep" =>
          /\ Len(machines') = Len(machines)
          /\ stats'.alerts_generated = stats.alerts_generated + Len(lastOp'.alerts)
          /\ \A i \in 1..Len(machines) :
                LET m == machines[i]
                    Mine(a) == a.machine_id = m.machine_id
                    mine == SelectSeq(lastOp'.alerts, Mine)
                IN  IF m.last_seen # None /\ now - m.last_seen > 5
                       /\ m.status # "offline"
                    THEN /\ machines'[i].status = "offline"
                         /\ machines'[i].last_seen = m.last_seen
                         /\ Len(mine) = 1
                         /\ mine[1].level = "warning"
                         /\ mine[1].message.n = m.last_seen
                         /\ machines'[i].alerts = Append(m.alerts, mine[1])
                    ELSE /\ machines'[i] = m
                         /\ mine = << >>]_vars

\* one sweep set a device last seen 6 minutes ago Offline, with one Warning
\* alert, and left a Running device seen within the timeout as it was
C7_Witness ==
    /\ lastOp.op = "sweep"
    /\ Len(lastOp.alerts) = 1
    /\ lastOp.alerts[1].level = "warning"
    /\ \E i, j \in 1..Len(machines) :
          /\ machines[i].machine_id = lastOp.alerts[1].machine_id
          /\ machines[i].status = "offline"
          /\ now - machines[i].last_seen = 6
          /\ machines[j].status = "running"
          /\ now - machines[j].last_seen <= 5

(* C8: sweeps run with no inbound message in between raise at most one     *)
(* offline Warning alert per device, and a sweep that directly follows a   *)
(* sweep changes no device status, no alert list and no alert counter.     *)
C8_SweepIsIdempotent ==
    [][/\ \A i \in 1..Len(machines') :
             LET Mine(a) == a.machine_id = machines'[i].machine_id
             IN  Len(SelectSeq(sweepAlerts', Mine)) <= 1
       /\ (lastOp.op = "sweep" /\ lastOp'.op = "sweep") =>
             /\ machines' = machines
             /\ stats' = stats
             /\ raised' = raised
             /\ lastOp'.alerts = << >>
             /\ published' = << >>]_vars

\* a sweep that followed the sweep which set a device Offline, and raised
\* nothing
C8_Witness ==
    /\ lastOp.op = "sweep"
    /\ lastOp.alerts = << >>
    /\ Len(sweepAlerts) >= 1
    /\ MachineOf(machines, sweepAlerts[1].machine_id).status = "offline"

(* C9: a sweep changes nothing of a device whose last-seen time is unset    *)
(* (its status included) and raises no alert for it.                       *)
C9_SweepSkipsNeverSeen ==
    [][lastOp'.op = "sweep" =>
          \A i \in 1..Len(machines) :
             machines[i].last_seen = None =>
                /\ i <= Len(machines')
                /\ machines'[i] = machines[i]
                /\ \A j \in 1..Len(lastOp'.alerts) :
                      lastOp'.alerts[j].machine_id # machines[i].machine_id]_vars

\* a sweep run more than 5 minutes after the clock started set one device
\* Offline while another, registered but never seen, was in the registry
C9_Witness ==
    /\ lastOp.op = "sweep"
    /\ lastOp.alerts # << >>
    /\ now >= 6
    /\ \E i \in 1..Len(machines) :
          /\ machines[i].last_seen = None
          /\ machines[i].alerts = << >>

(* C10: every step in which a device's status changes from Offline to      *)
(* another status is the handling of an inbound message for that device;   *)
(* no step of perform_health_check does it.                                *)
C10_OnlyMessagesLeaveOffline ==
    [][\A i \in 1..Len(machines) :
          (machines[i].status = "offline" /\ machines'[i].status # "offline") =>
             /\ lastOp'.op = "message"
             /\ OriginOf(lastOp'.topic) = machines[i].machine_id]_vars

\* a device that a sweep had set Offline is Running again after a sensor
\* event for it
C10_Witness ==
    /\ lastOp.op = "message"
    /\ \E i \in 1..Len(machines) :
          /\ machines[i].machine_id = OriginOf(lastOp.topic)
          /\ machines[i].status = "running"
          /\ \E k \in 1..Len(machines[i].alerts) :
                machines[i].alerts[k].message.fmt = "Machine went offline (last seen)"

---------------------------------------------------------------------------
(* What a returned matcher call was given *)

\* the segments of the topic and of the pattern of the call, as they were
\* written before being joined by '/'
CallTopic == matcher.topic_segments

CallPattern == matcher.pattern_segments

HasHash(q) == \E i \in 1..Len(q) : q[i] = Str("#")

\* segment i of the pattern is '+' or is the topic's segment i
SegmentAgrees(t, q, i) == q[i] = Str("+") \/ q[i] = t[i]

---------------------------------------------------------------------------
(* C11: for a pattern without '#', topic_matches_pattern is true exactly   *)
(* when topic and pattern have the same number of segments and every       *)
(* pattern segment is '+' or equals the topic segment at its position.     *)
C11_PlusMatchesOneSegment ==
    (matcher.returned /\ ~HasHash(CallPattern)) =>
       (matcher.result <=>
           /\ Len(CallTopic) = Len(CallPattern)
           /\ \A i \in 1..Len(CallPattern) : SegmentAgrees(CallTopic, CallPattern, i))

\* a/b/c was matched against a/+/c and the answer was true
C11_Witness ==
    /\ matcher.returned
    /\ CallTopic = <<Str("a"), Str("b"), Str("c")>>
    /\ CallPattern = <<Str("a"), Str("+"), Str("c")>>
    /\ matcher.result

---------------------------------------------------------------------------
(* C12: a pattern whose last segment is '#' (and that has no other '#')    *)
(* matches every topic whose leading segments agree with the pattern's     *)
(* segments before the '#', however many segments follow them, none        *)
(* included.                                                               *)
C12_HashMatchesTheRest ==
    LET n == Len(CallPattern) - 1
    IN  (/\ matcher.returned
         /\ CallPattern[n + 1] = Str("#")
         /\ ~HasHash(SubSeq(CallPattern, 1, n))
         /\ Len(CallTopic) >= n
         /\ \A i \in 1..n : SegmentAgrees(CallTopic, CallPattern, i))
        => matcher.result

---------------------------------------------------------------------------
(* C13: a pattern with '#' in a segment that is not its last matches no    *)
(* topic.                                                                  *)
C13_InnerHashNeverMatches ==
    (/\ matcher.returned
     /\ HasHash(SubSeq(CallPattern, 1, Len(CallPattern) - 1)))
    => ~matcher.result

---------------------------------------------------------------------------
(* C14: a topic with fewer segments than the pattern, a trailing '#'       *)
(* counted as a segment, does not match; a/b does not match a/b/#.         *)
C14_ShortTopicDoesNotMatch ==
    (matcher.returned /\ Len(CallTopic) < Len(CallPattern)) => ~matcher.result

\* a/b was matched against a/b/# and the answer was false
C14_Witness ==
    /\ matcher.returned
    /\ CallTopic = <<Str("a"), Str("b")>>
    /\ CallPattern = <<Str("a"), Str("b"), Str("#")>>
    /\ ~matcher.result

---------------------------------------------------------------------------
(* What the latest run of the controller did *)

\* the configured rule at position i matches the topic of the latest run
Triggered(i) ==
    TopicMatchesPattern(homeOp.topic, automation_rules[i].trigger_topic)

\* ... and its predicate is true on the payload of the latest run
Satisfied(i) ==
    Triggered(i) /\ Condition(automation_rules[i], homeOp.raw) = "true"

\* the positions 1..n in order
Positions(n) == [i \in 1..n |-> i]

\* the publishes of the latest run made for rules, in the order made
IsRulePublish(m) == m.rule # 0

RulePublishes == SelectSeq(homeOp.published, IsRulePublish)

\* the second segment of the triggering topic
SecondSegment == Split(homeOp.topic, "/")[2]

\* "home/<room>/<device>/command" for the k-th action of rule i, whose
\* template is home/{room}/<device>/command
CommandTopic(i, k) ==
    <<"home", "/">> \o SecondSegment
    \o <<"/", automation_rules[i].actions[k].topic_template[5], "/", "command">>

RECURSIVE PublishesOf(_)
\* (rule, topic) of one publish per action, for these rules in this order
PublishesOf(rs) ==
    IF rs = << >> THEN << >>
    ELSE [k \in 1..Len(automation_rules[Head(rs)].actions) |->
             [rule |-> Head(rs), topic |-> CommandTopic(Head(rs), k)]]
         \o PublishesOf(Tail(rs))

\* (rule, topic) of the publishes made for rules in the latest run
RulePublishTopics ==
    [k \in 1..Len(RulePublishes) |->
        [rule |-> RulePublishes[k].rule, topic |-> RulePublishes[k].topic]]

---------------------------------------------------------------------------
(* C15: check_automation_rules fires every configured rule whose pattern   *)
(* matches the topic and whose predicate is true on the payload, and no    *)
(* other rule, in configuration order.                                     *)
C15_EveryMatchingRuleFires ==
    homeOp.engine =>
       homeOp.fired = SelectSeq(Positions(Len(automation_rules)), Satisfied)

---------------------------------------------------------------------------
(* C16: each action of a rule that fires makes exactly one publish, in     *)
(* action order, on its topic template with {room} replaced by the second  *)
(* segment of the triggering topic; a rule whose predicate is false makes  *)
(* none.  Under the default rules home/kitchen/motion/detected with        *)
(* {"detected": true} gives one publish, to home/kitchen/light/command,    *)
(* and with {"detected": false} none.                                      *)
C16_OnePublishPerAction ==
    /\ RulePublishTopics = PublishesOf(homeOp.fired)
    /\ \A k \in 1..Len(RulePublishes) : RulePublishes[k].qos = 1
    /\ \A i \in 1..Len(automation_rules) :
          (homeOp.handled /\ Condition(automation_rules[i], homeOp.raw) = "false")
             => \A k \in 1..Len(homeOp.published) : homeOp.published[k].rule # i
    /\ (/\ homeOp.handled
        /\ automation_rules = DefaultRules
        /\ homeOp.topic = <<"home", "/", "kitchen", "/", "motion", "/", "detected">>)
       => /\ homeOp.raw = JsonObject("detected" :> JBool(TRUE))
             => /\ Len(homeOp.published) = 1
                /\ homeOp.published[1].topic =
                      <<"home", "/", "kitchen", "/", "light", "/", "command">>
          /\ homeOp.raw = JsonObject("detected" :> JBool(FALSE))
             => homeOp.published = << >>

\* a motion event of the living room fired the motion rule and then the
\* two-action rule: three publishes, light, fan, camera, for that room
C16_Witness ==
    /\ homeOp.fired = <<1, 3>>
    /\ Len(homeOp.published) = 3
    /\ homeOp.published[1].topic =
          <<"home", "/", "living", "_", "room", "/", "light", "/", "command">>
    /\ homeOp.published[2].topic =
          <<"home", "/", "living", "_", "room", "/", "fan", "/", "command">>
    /\ homeOp.published[3].topic =
          <<"home", "/", "living", "_", "room", "/", "camera", "/", "command">>

---------------------------------------------------------------------------
(* C17: a rule whose predicate raises, or whose payload lacks the field    *)
(* the predicate reads, is treated as a rule whose predicate is false: it  *)
(* does not fire, and every rule after it is still evaluated and fires if  *)
(* it matches and its predicate is true.                                   *)
C17_RaisingPredicateIsFalse ==
    homeOp.engine =>
       \A i \in 1..Len(automation_rules) :
          /\ Triggered(i) =>
                \E k \in 1..Len(homeOp.evaluated) : homeOp.evaluated[k] = i
          /\ Satisfied(i) <=> \E k \in 1..Len(homeOp.fired) : homeOp.fired[k] = i

---------------------------------------------------------------------------
(* C18: every inbound event whose payload decodes is passed to the rule    *)
(* engine, whatever its topic and whether or not its handler raises.       *)
C18_DecodedEventReachesEngine ==
    (homeOp.handled /\ homeOp.raw.decodable) => homeOp.engine

---------------------------------------------------------------------------
(* C19: an inbound event whose payload is not decodable JSON is dropped.   *)
(* In the monitor the registry with its sensor windows, alert lists and    *)
(* metric mappings, the alert counter and the status history are           *)
(* unchanged and nothing is published; in the controller the devices are   *)
(* unchanged, no rule is evaluated and nothing is published.  The message  *)
(* thread is left free for the next event.                                 *)
C19_UndecodableIsDropped ==
    [][/\ (/\ stats'.messages_processed = stats.messages_processed + 1
           /\ ~lastOp'.raw.decodable)
          => /\ machines' = machines
             /\ stats'.alerts_generated = stats.alerts_generated
             /\ status_history' = status_history
             /\ accepted' = accepted
             /\ raised' = raised
             /\ published' = << >>
             /\ ~pending'.active
       /\ (homeMsgs' = homeMsgs + 1 /\ ~homeOp'.raw.decodable)
          => /\ devices' = devices
             /\ homeOp'.published = << >>
             /\ ~homeOp'.engine
             /\ homeOp'.evaluated = << >>]_vars

\* The monitor has dropped an undecodable message and then accepted the
\* critical reading (two messages taken, one reading accepted, and the
\* latest was decodable); the controller, with a device registered, has
\* just dropped an undecodable message.
C19_Witness ==
    /\ stats.messages_processed = 2
    /\ Len(accepted) = 1
    /\ Len(raised) = 1
    /\ lastOp.op = "message"
    /\ lastOp.raw.decodable
    /\ devices # << >>
    /\ homeOp.handled
    /\ ~homeOp.raw.decodable

---------------------------------------------------------------------------
(* C20: a device identity is in the registry if and only if a decoded      *)
(* event referencing it (sensor, status, command or maintenance) has been  *)
(* observed.  Step by step: a decoded event of one of these shapes leaves  *)
(* the identity it names in the registry, and an identity enters the       *)
(* registry only in the step that takes a decoded event naming it.         *)
C20_RegisteredIffObserved ==
    [][LET ShapeOf(topic) ==
               IF Len(topic) >= 4 THEN topic[4] ELSE << >>
           NamesDevice(topic) ==
               ShapeOf(topic) \in {Str("sensors"), Str("status"),
                                   Str("commands"), Str("maintenance")}
           Observes ==
               /\ stats'.messages_processed = stats.messages_processed + 1
               /\ lastOp'.raw.decodable
               /\ NamesDevice(lastOp'.topic)
       IN  /\ Observes => InRegistry(machines', OriginOf(lastOp'.topic))
           /\ \A i \in 1..Len(machines') :
                 ~InRegistry(machines, machines'[i].machine_id)
                    => Observes /\ machines'[i].machine_id = OriginOf(lastOp'.topic)]_vars

---------------------------------------------------------------------------
(* Status-change records *)

\* the rows save_status_change_to_db wrote for one device
StatusRowsOf(history, id) ==
    LET Mine(r) == r.machine_id = id
    IN  SelectSeq(history, Mine)

---------------------------------------------------------------------------
(* C21: every step that changes the status of a registered device writes   *)
(* exactly one status-change record for it, whichever operation it is      *)
(* (status update, sensor event, maintenance event or sweep), and a step    *)
(* that leaves the status of a device as it was writes none for it.        *)
C21_StatusChangeRecordedOnce ==
    [][\A i \in 1..Len(machines) :
          LET id == machines[i].machine_id
              written == Len(StatusRowsOf(status_history', id))
                            - Len(StatusRowsOf(status_history, id))
          IN  written = IF machines'[i].status # machines[i].status THEN 1 ELSE 0]_vars

---------------------------------------------------------------------------
(* The life of one device: MaxLifeMsgs inbound messages for it (readings,  *)
(* one of them carrying a timestamp of its own and one a value that is not *)
(* a number, status updates and maintenance events), with sweeps and the    *)
(* clock.                                                                  *)

LifePair == <<Line, Str("m")>>

LifeEvents ==
    {<<DeviceTopic(LifePair, <<Str("sensors"), Str("temperature")>>),
       Decoded("value" :> JNum(79))>>,
     <<DeviceTopic(LifePair, <<Str("sensors"), Str("temperature")>>),
       Decoded(("value" :> JNum(79)) @@ ("timestamp" :> JIso(0)))>>,
     <<DeviceTopic(LifePair, <<Str("sensors"), Str("temperature")>>),
       Decoded("value" :> JStr(Str("hot")))>>,
     <<DeviceTopic(LifePair, <<Str("status")>>),
       Decoded("status" :> JStr(Str("idle")))>>,
     <<DeviceTopic(LifePair, <<Str("status")>>),
       Decoded("status" :> JStr(Str("error")))>>}
    \cup MaintenanceEvents(LifePair)

LifeBudget == stats.messages_processed < MaxLifeMsgs

NextLife ==
    \/ \E e \in LifeEvents : LifeBudget /\ OnMessage(e[1], e[2])
    \/ \E e \in LifeEvents : LifeBudget /\ OnMessageRegister(e[1], e[2])
    \/ OnMessageResume
    \/ PerformHealthCheck
    \/ Tick

SpecLife == Init /\ [][NextLife]_vars

---------------------------------------------------------------------------
(* What the latest inbound message was *)

\* the step takes a decoded message of this shape from the broker
Takes(shape) ==
    /\ lastOp'.op = "message"
    /\ stats'.messages_processed = stats.messages_processed + 1
    /\ lastOp'.raw.decodable
    /\ Len(lastOp'.topic) >= 4
    /\ lastOp'.topic[4] = Str(shape)

\* the latest step handled a decoded message of this shape
Took(shape) ==
    /\ lastOp.op = "message"
    /\ lastOp.raw.decodable
    /\ Len(lastOp.topic) >= 4
    /\ lastOp.topic[4] = Str(shape)

\* the status a status update reports
ReportedStatus(raw) == Get(raw.fields, "status", JStr(Str("offline")))

---------------------------------------------------------------------------
(* C22: a status update that reports Error for a registered device whose   *)
(* status is not Error raises exactly one alert, a Critical one for that    *)
(* device, and leaves the device in Error; a status update that reports     *)
(* Error for a device already in Error raises no alert.                     *)
C22_ErrorUpdateRaisesOneCritical ==
    [][\A i \in 1..Len(machines) :
          (/\ Takes("status")
           /\ OriginOf(lastOp'.topic) = machines[i].machine_id
           /\ ReportedStatus(lastOp'.raw) = JStr(Str("error")))
          => /\ machines'[i].status = "error"
             /\ IF machines[i].status # "error"
                THEN /\ Len(lastOp'.alerts) = 1
                     /\ lastOp'.alerts[1].level = "critical"
                     /\ lastOp'.alerts[1].machine_id = machines[i].machine_id
                     /\ raised' = Append(raised, lastOp'.alerts[1])
                     /\ machines'[i].alerts = Append(machines[i].alerts, lastOp'.alerts[1])
                     /\ stats'.alerts_generated = stats.alerts_generated + 1
                ELSE /\ lastOp'.alerts = << >>
                     /\ raised' = raised
                     /\ machines'[i].alerts = machines[i].alerts
                     /\ stats'.alerts_generated = stats.alerts_generated]_vars

\* a second status update reporting Error, handled after the clock moved
\* on from the first one: the only alert raised so far is the Critical one
\* of the first update
C22_Witness ==
    /\ Took("status")
    /\ ReportedStatus(lastOp.raw) = JStr(Str("error"))
    /\ lastOp.alerts = << >>
    /\ Len(machines) = 1
    /\ machines[1].machine_id = OriginOf(lastOp.topic)
    /\ machines[1].status = "error"
    /\ machines[1].last_seen = now
    /\ Len(raised) = 1
    /\ raised[1].level = "critical"
    /\ raised[1].timestamp < now

---------------------------------------------------------------------------
(* C23: when a sensor event has been accepted (its reading appended), the  *)
(* device it names is registered with status Running and its last-seen     *)
(* time is the time at which the event was handled, whatever the status    *)
(* of the device was before and whatever timestamp the payload carries.    *)
C23_AcceptedReadingMeansRunning ==
    (/\ lastOp.op = "message"
     /\ lastOp.readings # << >>)
    => /\ InRegistry(machines, OriginOf(lastOp.topic))
       /\ MachineOf(machines, OriginOf(lastOp.topic)).status = "running"
       /\ MachineOf(machines, OriginOf(lastOp.topic)).last_seen = now

\* a reading accepted for a device that a status update had put in Error
\* (the Critical alert of that update is the only alert so far, so no sweep
\* or maintenance event came after it); the reading carries an older
\* timestamp of its own
C23_Witness ==
    /\ Took("sensors")
    /\ Len(lastOp.readings) = 1
    /\ lastOp.readings[1].timestamp < now
    /\ Len(machines) = 1
    /\ machines[1].status = "running"
    /\ machines[1].last_seen = now
    /\ status_history = <<[machine_id |-> machines[1].machine_id, status |-> "error"]>>
    /\ Len(raised) = 1
    /\ raised[1].level = "critical"

---------------------------------------------------------------------------
(* Sensor events that fail partway *)

\* the payload's value does not convert with float()
ValueNotNumeric(raw) ==
    raw.decodable /\ ~FloatOk(Get(raw.fields, "value", JNum(0)))

---------------------------------------------------------------------------
(* C30: a step that ends the handling of a sensor event whose value is not *)
(* numeric leaves the device the event names registered, Running and with  *)
(* the handling time as last-seen; it appends no reading to any window,    *)
(* raises no alert, writes no metric and publishes nothing; and the        *)
(* message thread is free for the next event.                              *)
C30_FailedReadingKeepsAppliedSteps ==
    [][(/\ lastOp'.op = "message"
        /\ (stats'.messages_processed = stats.messages_processed + 1 \/ pending.active)
        /\ IsSensorTopic(lastOp'.topic)
        /\ ValueNotNumeric(lastOp'.raw))
       => /\ InRegistry(machines', OriginOf(lastOp'.topic))
          /\ MachineOf(machines', OriginOf(lastOp'.topic)).status = "running"
          /\ MachineOf(machines', OriginOf(lastOp'.topic)).last_seen = now
          /\ Len(machines') = Len(machines)
          /\ \A i \in 1..Len(machines) :
                /\ machines'[i].machine_id = machines[i].machine_id
                /\ machines'[i].sensor_data = machines[i].sensor_data
                /\ machines'[i].alerts = machines[i].alerts
                /\ machines'[i].performance_metrics = machines[i].performance_metrics
                /\ machines[i].machine_id # OriginOf(lastOp'.topic)
                      => machines'[i] = machines[i]
          /\ accepted' = accepted
          /\ raised' = raised
          /\ stats'.alerts_generated = stats.alerts_generated
          /\ published' = << >>
          /\ status_history' = status_history
          /\ ~pending'.active]_vars

\* a device that was registered by a sensor event that failed (it has no
\* window of any kind, and only a sensor event registers) has since had a
\* status update handled: it is Idle and the change is recorded
C30_Witness ==
    /\ ~pending.active
    /\ Took("status")
    /\ Len(machines) = 1
    /\ machines[1].machine_id = OriginOf(lastOp.topic)
    /\ DOMAIN machines[1].sensor_data = {}
    /\ machines[1].alerts = << >>
    /\ DOMAIN machines[1].performance_metrics = {}
    /\ machines[1].status = "idle"
    /\ status_history = <<[machine_id |-> machines[1].machine_id, status |-> "idle"]>>

---------------------------------------------------------------------------
(* Metrics: a feed of MaxFeed readings for one device, the n-th fixed by   *)
(* n.  One message in ten is a flow reading, the others are humidity       *)
(* readings (neither kind has thresholds); the flow readings are 1, 2,     *)
(* 3, ..., the humidity readings go up and down.  Or one call of           *)
(* calculate_trend: on any list of at most MaxAnyLen values, on 1,...,10,  *)
(* or on a list of at most MaxTrendLen values rising by a constant.        *)

FeedPair == <<Line, Str("m")>>

\* the readings of this kind the feed has delivered
Fed(kind) ==
    IF InRegistry(machines, OriginOf(DeviceTopic(FeedPair, << >>)))
    THEN LET m == MachineOf(machines, OriginOf(DeviceTopic(FeedPair, << >>)))
         IN  IF kind \in DOMAIN m.sensor_data THEN Len(m.sensor_data[kind]) ELSE 0
    ELSE 0

FeedKind(n) == IF n % 10 = 5 THEN Str("flow") ELSE Str("humidity")

FeedValue(kind) ==
    LET k == Fed(kind) + 1
    IN  IF kind = Str("flow") THEN k ELSE (3 * k * k) % 11

FeedEvent(n) ==
    <<DeviceTopic(FeedPair, <<Str("sensors"), FeedKind(n)>>),
      Decoded("value" :> JNum(FeedValue(FeedKind(n))))>>

FeedBudget == stats.messages_processed < MaxFeed

RECURSIVE SeqsOver(_, _)
\* the lists of exactly n values of S
SeqsOver(S, n) ==
    IF n = 0 THEN {<< >>}
    ELSE {Append(xs, v) : xs \in SeqsOver(S, n - 1), v \in S}

TrendArguments ==
    UNION {SeqsOver({0, 1, 5}, n) : n \in 0..MaxAnyLen}
    \cup {[i \in 1..10 |-> i]}
    \cup {[i \in 1..n |-> a + d * (i - 1)] :
             n \in 2..MaxTrendLen, a \in {0, 2}, d \in {-2, 0, 1, 3}}

InitMetrics ==
    /\ MonitorInit
    /\ ControllerInit(DefaultRules)
    /\ matcher = NoCall
    /\ trendCall \in {NoTrendCall}
                     \cup {[called |-> TRUE, values |-> xs, returned |-> FALSE,
                            trend |-> Rat(0, 1)] : xs \in TrendArguments}

NextMetrics ==
    \/ CalculateTrendCall
    \/ /\ ~trendCall.called
       /\ FeedBudget
       /\ LET e == FeedEvent(stats.messages_processed)
          IN  OnMessage(e[1], e[2])
    \/ /\ ~trendCall.called
       /\ FeedBudget
       /\ LET e == FeedEvent(stats.messages_processed)
          IN  OnMessageRegister(e[1], e[2])
    \/ OnMessageResume

SpecMetrics == InitMetrics /\ [][NextMetrics]_vars

---------------------------------------------------------------------------
(* Metrics read off the registry *)

\* the five metric keys of a kind
MetricKeys(kind) ==
    {MetricKey(kind, stat) : stat \in {"mean", "std", "min", "max", "trend"}}

\* the values of the most recent readings of a window, at most 100 of them
RecentValues(window) ==
    LET recent == LastN(window, MetricsWindow)
    IN  [k \in 1..Len(recent) |-> recent[k].value]

\* the step ends the handling of a sensor event whose reading was appended
\* for the device at this position
Appends(i) ==
    /\ lastOp'.op = "message"
    /\ stats'.messages_processed = stats.messages_processed + 1 \/ pending.active
    /\ lastOp'.readings # << >>
    /\ machines[i].machine_id = OriginOf(lastOp'.topic)

---------------------------------------------------------------------------
(* C24: a step that appends a reading of a kind and leaves its window with *)
(* at least 10 readings writes the five metric keys of that kind, from the *)
(* readings of the window, and changes no other metric entry; a step that  *)
(* leaves the window with fewer than 10 readings, and every other step,    *)
(* leaves the metric mapping as it was.                                    *)
C24_MetricsWrittenFromTenReadings ==
    [][\A i \in 1..Len(machines) :
          LET before == machines[i].performance_metrics
              after == machines'[i].performance_metrics
              kind == lastOp'.topic[5]
              values == RecentValues(machines'[i].sensor_data[kind])
          IN  IF Appends(i) /\ Len(machines'[i].sensor_data[kind]) >= 10
              THEN /\ DOMAIN after = DOMAIN before \cup MetricKeys(kind)
                   /\ \A key \in DOMAIN before \ MetricKeys(kind) :
                         after[key] = before[key]
                   /\ after[MetricKey(kind, "mean")] = Mean(values)
                   /\ after[MetricKey(kind, "std")] = Stdev(values)
                   /\ after[MetricKey(kind, "min")] = Rat(MinSeq(values), 1)
                   /\ after[MetricKey(kind, "max")] = Rat(MaxSeq(values), 1)
              ELSE after = before]_vars

\* a humidity reading has just been appended to a window of 10 or more:
\* the device has the metrics of humidity and those of flow
C24_Witness ==
    /\ Took("sensors")
    /\ Len(lastOp.readings) = 1
    /\ lastOp.readings[1].sensor_type = Str("humidity")
    /\ Len(machines) = 1
    /\ Len(machines[1].sensor_data[Str("humidity")]) >= 10
    /\ DOMAIN machines[1].performance_metrics =
          MetricKeys(Str("humidity")) \cup MetricKeys(Str("flow"))

---------------------------------------------------------------------------
(* Least squares *)

\* the slope of the least-squares line of ys against the 0-based index,
\* by the closed form (n Sxy - Sx Sy) / (n Sxx - Sx Sx); ys has 2 or more values
LeastSquaresSlope(ys) ==
    LET n == Len(ys)
        Sx == SumSeq([k \in 1..n |-> k - 1])
        Sy == SumSeq(ys)
        Sxy == SumSeq([k \in 1..n |-> (k - 1) * ys[k]])
        Sxx == SumSeq([k \in 1..n |-> (k - 1) * (k - 1)])
    IN  Rat(n * Sxy - Sx * Sy, n * Sxx - Sx * Sx)

\* every value is the one before it plus d
RisesBy(ys, d) == \A k \in 2..Len(ys) : ys[k] = ys[k - 1] + d

OneToTen == [k \in 1..10 |-> k]

---------------------------------------------------------------------------
(* C25: calculate_trend returns 0 for fewer than 2 values and otherwise    *)
(* the least-squares slope of the values against their 0-based index: 1    *)
(* for 1,...,10 and d for values rising by a constant d.  The trend entry  *)
(* of a kind is that slope over the most recent min(100, n) readings of    *)
(* its window, and the mean entry their mean: 5.5 for 1,...,10.            *)
C25_TrendIsLeastSquaresSlope ==
    /\ trendCall.returned =>
          LET ys == trendCall.values
          IN  /\ Len(ys) < 2 => trendCall.trend = Rat(0, 1)
              /\ Len(ys) >= 2 => trendCall.trend = LeastSquaresSlope(ys)
              /\ ys = OneToTen => trendCall.trend = Rat(1, 1)
              /\ \A d \in -2..3 :
                    Len(ys) >= 2 /\ RisesBy(ys, d) => trendCall.trend = Rat(d, 1)
    /\ \A i \in 1..Len(machines) :
          \A kind \in DOMAIN machines[i].sensor_data :
             LET window == machines[i].sensor_data[kind]
                 ys == RecentValues(window)
                 metrics == machines[i].performance_metrics
             IN  Len(window) >= 10 =>
                    /\ Len(ys) = Min(100, Len(window))
                    /\ \A k \in 1..Len(ys) :
                          ys[k] = window[Len(window) - Len(ys) + k].value
                    /\ metrics[MetricKey(kind, "trend")] = LeastSquaresSlope(ys)
                    /\ ys = OneToTen =>
                          /\ metrics[MetricKey(kind, "mean")] = Rat(11, 2)
                          /\ metrics[MetricKey(kind, "trend")] = Rat(1, 1)

\* a window of more than 100 readings whose trend entry is not the slope
\* over all of its readings
C25_Witness ==
    /\ Len(machines) = 1
    /\ Str("humidity") \in DOMAIN machines[1].sensor_data
    /\ LET window == machines[1].sensor_data[Str("humidity")]
       IN  /\ Len(window) > 100
           /\ machines[1].performance_metrics[MetricKey(Str("humidity"), "trend")]
                 # LeastSquaresSlope([k \in 1..Len(window) |-> window[k].value])

---------------------------------------------------------------------------
(* The two threads: MaxThreadMsgs inbound messages (readings of two        *)
(* devices, quiet or at the warning level) handled by the message thread   *)
(* while the health-check thread runs its loop statement by statement, the *)
(* clock, and disconnect().  A handler run is one step, apart from the     *)
(* preemption point after the creation of a Machine.                       *)

ThreadEvents ==
    {<<DeviceTopic(p, <<Str("sensors"), Str("temperature")>>),
       Decoded("value" :> JNum(v))>> : p \in Pairs, v \in {79, 80}}

ThreadBudget == running /\ stats.messages_processed < MaxThreadMsgs

NextThreads ==
    \/ \E e \in ThreadEvents : ThreadBudget /\ OnMessage(e[1], e[2])
    \/ \E e \in ThreadEvents : ThreadBudget /\ OnMessageRegister(e[1], e[2])
    \/ OnMessageResume
    \/ LoopTest
    \/ SweepBegin
    \/ SweepNext
    \/ SweepStatus
    \/ SweepCount
    \/ Disconnect
    \/ Tick

SpecThreads == Init /\ [][NextThreads]_vars

\* the scheduler lets the health-check thread run, and the clock goes on
SpecThreadsFair ==
    SpecThreads /\ WF_vars(HealthCheckLoop) /\ WF_vars(Tick)

---------------------------------------------------------------------------
(* C26: whenever the health-check thread writes Offline to a device (and   *)
(* builds its offline alert), the last-seen time the device has at that    *)
(* moment is more than the timeout before the clock: the thread's test of  *)
(* last-seen and status and its write are not separated by a sensor event  *)
(* for the device.                                                         *)
C26_OfflineWrittenOnlyWhenOverdue ==
    [][\A i \in 1..Len(machines) :
          (/\ hc.pc = "status"
           /\ hc.i = i
           /\ machines[i].status # "offline"
           /\ machines'[i].status = "offline")
          => /\ machines[i].last_seen # None
             /\ now - machines[i].last_seen > OfflineTimeout]_vars

---------------------------------------------------------------------------
(* C27: whenever no generate_alert call is under way, the counter          *)
(* alerts_generated equals the number of alerts generate_alert has built.  *)
C27_CounterCountsEveryAlert ==
    hc.pc # "count" => stats.alerts_generated = Len(raised)

---------------------------------------------------------------------------
(* C28: no step of a sweep that began after disconnect() set self.running  *)
(* to False changes a device, raises an alert or moves the alert counter.  *)
C28_NoSweepAfterShutdown ==
    [][(hc.stopped /\ hc.pc \in {"next", "status", "count"} /\ hc' # hc)
       => /\ machines' = machines
          /\ raised' = raised
          /\ stats' = stats]_vars

---------------------------------------------------------------------------
(* C29: while the monitor is not shut down, a registered device does not   *)
(* stay for ever overdue (last seen more than the timeout ago) without     *)
(* being set Offline, also when a Machine is created while a sweep is      *)
(* iterating.                                                              *)
C29_SilentDeviceGoesOffline ==
    \A i \in 1..Cardinality(Pairs) :
       []<>(\/ ~running
            \/ ~(/\ i <= Len(machines)
                 /\ machines[i].last_seen # None
                 /\ now - machines[i].last_seen > OfflineTimeout
                 /\ machines[i].status # "offline"))

---------------------------------------------------------------------------
(* Events of every shape: MaxShapeMsgs inbound messages for the zone       *)
(* line_a with device m and the zone line with device m.  For the first    *)
(* pair: a reading, status updates (a status of the enum, a value that is  *)
(* not of the enum, no status field), the four commands, a maintenance     *)
(* event, topics of these shapes with one more segment, and a sensor topic *)
(* without its kind segment.  For the second pair: a reading and a status  *)
(* update.  The clock can move on MaxShapeTime times.                      *)

ShapePair == <<LineA, Str("m")>>

ShapeOtherPair == <<Line, Str("m")>>

Reading79 == Decoded("value" :> JNum(79))

StatusError == Decoded("status" :> JStr(Str("error")))

ShapeEvents ==
    {<<DeviceTopic(ShapePair, <<Str("sensors"), Str("temperature")>>), Reading79>>,
     <<DeviceTopic(ShapePair, <<Str("status")>>), StatusError>>,
     <<DeviceTopic(ShapePair, <<Str("status")>>),
       Decoded("status" :> JStr(Str("broken")))>>,
     <<DeviceTopic(ShapePair, <<Str("status")>>),
       Decoded("error_message" :> JStr(Str("jam")))>>,
     <<DeviceTopic(ShapePair, <<Str("maintenance")>>),
       Decoded("type" :> JStr(Str("routine")))>>,
     <<DeviceTopic(ShapePair, <<Str("status"), Str("extra")>>), StatusError>>,
     <<DeviceTopic(ShapePair, <<Str("maintenance"), Str("extra")>>),
       Decoded("type" :> JStr(Str("routine")))>>,
     <<DeviceTopic(ShapePair, <<Str("sensors"), Str("temperature"), Str("extra")>>),
       Reading79>>,
     <<DeviceTopic(ShapePair, <<Str("sensors")>>), Reading79>>,
     <<DeviceTopic(ShapeOtherPair, <<Str("sensors"), Str("temperature")>>), Reading79>>,
     <<DeviceTopic(ShapeOtherPair, <<Str("status")>>), StatusError>>}
    \cup {<<DeviceTopic(ShapePair, <<Str("commands")>>),
            Decoded("command" :> JStr(Str(c)))>> :
             c \in {"start", "stop", "maintenance", "reset_alerts"}}

ShapeBudget == stats.messages_processed < MaxShapeMsgs

NextShapes ==
    \/ \E e \in ShapeEvents : ShapeBudget /\ OnMessage(e[1], e[2])
    \/ \E e \in ShapeEvents : ShapeBudget /\ OnMessageRegister(e[1], e[2])
    \/ OnMessageResume
    \/ now < MaxShapeTime /\ Tick

SpecShapes == Init /\ [][NextShapes]_vars

\* the decoded payload carries a status field whose value is not a value
\* of the MachineStatus enum
ReportsUnknownStatus(raw) ==
    /\ "status" \in DOMAIN raw.fields
    /\ raw.fields["status"] \notin {JStr(Str(s)) : s \in MachineStatus}

---------------------------------------------------------------------------
(* C31: a status update whose status value is not one of running, idle,    *)
(* maintenance, error, offline leaves every device as it was (status,       *)
(* last-seen time, alert list), writes no status-change record, raises no   *)
(* alert and publishes nothing.                                             *)
C31_UnknownStatusChangesNothing ==
    [][(/\ Takes("status")
        /\ ReportsUnknownStatus(lastOp'.raw))
       => /\ machines' = machines
          /\ status_history' = status_history
          /\ raised' = raised
          /\ published' = << >>
          /\ stats'.alerts_generated = stats.alerts_generated]_vars

\* a status update reporting "broken" for a registered Running device,
\* handled after the clock moved on from the reading that registered it
C31_Witness ==
    /\ Took("status")
    /\ ReportsUnknownStatus(lastOp.raw)
    /\ InRegistry(machines, OriginOf(lastOp.topic))
    /\ MachineOf(machines, OriginOf(lastOp.topic)).status = "running"
    /\ MachineOf(machines, OriginOf(lastOp.topic)).last_seen < now
    /\ status_history = << >>

---------------------------------------------------------------------------
(* C32: a status update whose payload has no status field changes the      *)
(* status of no device; in particular a Running device stays Running.      *)
C32_MissingStatusKeepsStatus ==
    [][(/\ Takes("status")
        /\ "status" \notin DOMAIN lastOp'.raw.fields)
       => /\ Len(machines') = Len(machines)
          /\ \A i \in 1..Len(machines) :
                machines'[i].status = machines[i].status]_vars

\* the commands handle_command recognises
RecognisedCommands == {"start", "stop", "maintenance", "reset_alerts"}

---------------------------------------------------------------------------
(* C33: a command event carrying start, stop, maintenance or reset_alerts  *)
(* is turned into its external action, one outbound publish, and changes    *)
(* no field of any device of the registry.                                  *)
C33_CommandBecomesExternalAction ==
    [][\A c \in RecognisedCommands :
          (/\ Takes("commands")
           /\ Len(lastOp'.topic) = 4
           /\ Get(lastOp'.raw.fields, "command", JStr(NoneStr)) = JStr(Str(c)))
          => /\ Len(published') = 1
             /\ machines' = machines]_vars

---------------------------------------------------------------------------
(* C34: a maintenance event for a registered device leaves that device in  *)
(* status maintenance and raises exactly one alert, an Info alert for that  *)
(* device, which is published as an alert; no emergency-stop command is     *)
(* published.                                                               *)
C34_MaintenanceRaisesOneInfo ==
    [][\A i \in 1..Len(machines) :
          (/\ Takes("maintenance")
           /\ Len(lastOp'.topic) = 4
           /\ OriginOf(lastOp'.topic) = machines[i].machine_id)
          => /\ machines'[i].status = "maintenance"
             /\ Len(lastOp'.alerts) = 1
             /\ lastOp'.alerts[1].level = "info"
             /\ lastOp'.alerts[1].machine_id = machines[i].machine_id
             /\ raised' = Append(raised, lastOp'.alerts[1])
             /\ machines'[i].alerts = Append(machines[i].alerts, lastOp'.alerts[1])
             /\ stats'.alerts_generated = stats.alerts_generated + 1
             /\ Len(published') = 1
             /\ published'[1].topic = <<Str("factory"), Str("alerts"), Str("info")>>
             /\ \A k \in 1..Len(published') :
                   published'[k].topic[Len(published'[k].topic)] # Str("emergency")]_vars

\* a maintenance event handled for a device that a status update had put
\* in Error: the device is in maintenance and the alerts raised so far are
\* the Critical one of the update and the Info one of the maintenance event
C34_Witness ==
    /\ Took("maintenance")
    /\ Len(lastOp.topic) = 4
    /\ InRegistry(machines, OriginOf(lastOp.topic))
    /\ MachineOf(machines, OriginOf(lastOp.topic)).status = "maintenance"
    /\ Len(raised) = 2
    /\ raised[1].level = "critical"
    /\ raised[2].level = "info"
    /\ raised[2].machine_id = OriginOf(lastOp.topic)
    /\ Len(published) = 1

\* the topic has exactly the segments of one of the four device shapes:
\* factory/<zone>/<device>/<status|commands|maintenance> or
\* factory/<zone>/<device>/sensors/<kind>
ExactShape(topic) ==
    \/ /\ Len(topic) = 4
       /\ topic[4] \in {Str("status"), Str("commands"), Str("maintenance")}
    \/ /\ Len(topic) = 5
       /\ topic[4] = Str("sensors")

---------------------------------------------------------------------------
(* C35: an inbound message whose topic has not exactly the segments of a   *)
(* device shape (segments after the shape keyword, or after the kind of a   *)
(* sensor topic, or a sensor topic without its kind) reaches no handler:    *)
(* it changes no device, writes no status-change record, raises no alert    *)
(* and publishes nothing.                                                   *)
C35_OnlyExactShapesAreRouted ==
    [][(/\ lastOp'.op = "message"
        /\ stats'.messages_processed = stats.messages_processed + 1
        /\ lastOp'.raw.decodable
        /\ ~ExactShape(lastOp'.topic))
       => /\ machines' = machines
          /\ status_history' = status_history
          /\ raised' = raised
          /\ published' = << >>]_vars

---------------------------------------------------------------------------
(* Zones and devices whose names contain the separator: MaxPairMsgs        *)
(* inbound messages (a reading, a status update, a maintenance event) for   *)
(* device m of zone line_a, device a_m of zone line and device m of zone    *)
(* line.                                                                    *)

ZonePairs == {<<LineA, Str("m")>>, <<Line, <<"a", "_", "m">>>>, <<Line, Str("m")>>}

PairEvents ==
    UNION {{<<DeviceTopic(p, <<Str("sensors"), Str("temperature")>>),
              Decoded("value" :> JNum(79))>>,
            <<DeviceTopic(p, <<Str("status")>>),
              Decoded("status" :> JStr(Str("idle")))>>,
            <<DeviceTopic(p, <<Str("maintenance")>>),
              Decoded("type" :> JStr(Str("routine")))>>} : p \in ZonePairs}

PairBudget == stats.messages_processed < MaxPairMsgs

NextPairs ==
    \/ \E e \in PairEvents : PairBudget /\ OnMessage(e[1], e[2])
    \/ \E e \in PairEvents : PairBudget /\ OnMessageRegister(e[1], e[2])
    \/ OnMessageResume

SpecPairs == Init /\ [][NextPairs]_vars

---------------------------------------------------------------------------
(* C36: different (zone, device) pairs have different registry entries: an *)
(* event changes a registry entry only if the entry was created for the     *)
(* zone and the device that the topic of the event names.                   *)
C36_EventsChangeOnlyTheirOwnDevice ==
    [][\A i \in 1..Len(machines) :
          (/\ lastOp'.op = "message"
           /\ stats'.messages_processed = stats.messages_processed + 1
              \/ pending.active
           /\ machines'[i] # machines[i])
          => /\ machines[i].line_id = lastOp'.topic[2]
             /\ machines[i].machine_id = machines[i].line_id \o <<"_">> \o lastOp'.topic[3]]_vars

=============================================================================
